---- MODULE Spec2Model ----
(***************************************************************************)
(* Ringba original payout/revenue sync (kunalmkv/ringba_ts).               *)
(*                                                                         *)
(* Encoding of the program's values                                        *)
(*   - a string that the code takes apart (a phone number) is a sequence   *)
(*     of one-character strings; null, undefined and '' are <<>>;          *)
(*   - a nullable column or field is a sequence of length <= 1:            *)
(*     <<>> is NULL / null, <<v>> is the value v;                          *)
(*   - money is an integer number of cents (DECIMAL(10, 2));               *)
(*   - a timestamp string "YYYY-MM-DDTHH:mm:ss" is the number of seconds   *)
(*     of that civil date-time since 2026-01-01T00:00:00; a Date is the    *)
(*     number of seconds of the instant since 2026-01-01T00:00:00Z;        *)
(*   - a number the matcher computes with (a minute count, a payout as a   *)
(*     number, a score) is an IEEE 754 double, written as the digits of    *)
(*     its value times 2^60 (section Numbers);                            *)
(*   - a string the code only looks up or searches (a target id or name)   *)
(*     is a string; a thrown error is the value the caller receives        *)
(*     instead of a result.                                                *)
(***************************************************************************)
EXTENDS Integers, Sequences, FiniteSets, TLC

VARIABLES
    tz,                    \* offset of the process's local time zone, minutes east of UTC
    pc,                    \* position of the running operation
    elocal_call_data,      \* table elocal_call_data (the target rows)
    ringba_original_sync,  \* table ringba_original_sync (the mirror of the origin feed)
    ringbaApi,             \* what the Ringba call-log API answers, per day and target id
    syncArgs,              \* syncRingbaOriginalPayout: dateRange and category
    ringbaCalls,           \* syncRingbaOriginalPayout: the deduplicated origin list
    saveResult,            \* syncRingbaOriginalPayout: result of insertRingbaCallsBatch
    elocalCalls,           \* syncRingbaOriginalPayout: result of getCallsForDateRange
    prepared,              \* syncRingbaOriginalPayout: result of matchAndPrepareUpdates
    summaries,             \* the RingbaOriginalSyncSummary of every finished run
    snapshots,             \* the two tables as they were when each run finished
    opLog,                 \* the requests and store statements issued, with the table before each
    faults,                \* what is missing or failing in the environment of a sync run
    scheduler,             \* SequentialScheduler: isRunning, jobStats and the executions started
    locals,                \* the local variables of the functions that stand at an await
    fnArg,                 \* the argument of a function applied on its own
    fnResult               \* the result of a function applied on its own

vars == <<tz, pc, elocal_call_data, ringba_original_sync, ringbaApi, syncArgs, ringbaCalls,
          saveResult, elocalCalls, prepared, summaries, snapshots, opLog, faults,
          scheduler, locals, fnArg, fnResult>>

storeVars == <<elocal_call_data, ringba_original_sync>>
runVars == <<ringbaCalls, saveResult, elocalCalls, prepared>>
auxVars == <<faults, scheduler, locals, fnArg, fnResult>>

-----------------------------------------------------------------------------
(* Generic helpers *)

NULL == <<>>

Some(v) == <<v>>

\* x ?? d
OrElse(x, d) == IF x = NULL THEN d ELSE x[1]

Abs(n) == IF n < 0 THEN -n ELSE n

Range(s) == {s[i] : i \in 1..Len(s)}

\* all sequences over S of length 0..n
SeqsUpTo(S, n) == UNION {[1..k -> S] : k \in 0..n}

\* an environment in which nothing is missing and no statement fails
NoFaults == [accountIdMissing |-> FALSE, apiTokenMissing |-> FALSE,
             databaseUrlMissing |-> FALSE, readThrows |-> FALSE,
             saveThrows |-> {}, updateThrows |-> {}]

\* new SequentialScheduler({schedules: []}): not started, no start() under way, no task
\* created, in the map or active, no statistics, nothing executing; nextCron is the
\* position in the configuration of the schedule whose time of day comes next, fired
\* the tasks whose callback has run at that time of day
NewScheduler ==
    [config |-> <<>>, missingVars |-> FALSE, isRunning |-> FALSE, starting |-> 0,
     created |-> 0, tasks |-> <<>>, running |-> {}, jobStats |-> <<>>, executions |-> <<>>,
     nextCron |-> 1, fired |-> {}]

\* no fault, a scheduler that was never started, no function applied on its own
NoAux ==
    /\ faults = NoFaults
    /\ scheduler = NewScheduler
    /\ locals = NULL
    /\ fnArg = NULL
    /\ fnResult = NULL

SecondsPerMinute == 60
SecondsPerDay == 86400

-----------------------------------------------------------------------------
(* Identity normalizer *)

Digits == {"0", "1", "2", "3", "4", "5", "6", "7", "8", "9"}

\* raw.replace(/\D/g, '')
StripNonDigits(raw) == SelectSeq(raw, LAMBDA c : c \in Digits)

NationalLen == 10
NationalLenWithCountry == 11

\* toE164 of the sync service: a raw value that starts with '+' is returned as it is
toE164(raw) ==
    LET digits == StripNonDigits(raw) IN
    IF raw = <<>> THEN NULL
    ELSE IF digits = <<>> THEN NULL
    ELSE IF raw[1] = "+" THEN raw
    ELSE IF Len(digits) = NationalLenWithCountry /\ digits[1] = "1" THEN <<"+">> \o digits
    ELSE IF Len(digits) = NationalLen THEN <<"+", "1">> \o digits
    ELSE <<"+">> \o digits

\* toE164 of the database layer: a raw value that starts with '+' keeps only its digits
toE164_neon(raw) ==
    LET digits == StripNonDigits(raw) IN
    IF raw = <<>> THEN NULL
    ELSE IF digits = <<>> THEN NULL
    ELSE IF raw[1] = "+" THEN <<"+">> \o digits
    ELSE IF Len(digits) = NationalLenWithCountry /\ digits[1] = "1" THEN <<"+">> \o digits
    ELSE IF Len(digits) = NationalLen THEN <<"+", "1">> \o digits
    ELSE <<"+">> \o digits

TargetStatic == "TA48aa3e3f5a0544af8549703f76a24faa"
TargetApi == "PI1175ac62aa1c4748b21216666b398135"

\* Object.entries(TARGET_IDS), in insertion order
TARGET_IDS == <<
    [id |-> TargetStatic, name |-> "Elocal - Appliance repair - Static Line"],
    [id |-> TargetApi, name |-> "Elocal - Appliance Repair"] >>

\* the names every plain object inherits from Object.prototype: TARGET_IDS[name] is defined
\* for them although name is not a key of TARGET_IDS
ObjectPrototypeMembers ==
    {"constructor", "toString", "toLocaleString", "valueOf", "hasOwnProperty",
     "isPrototypeOf", "propertyIsEnumerable", "__proto__", "__defineGetter__",
     "__defineSetter__", "__lookupGetter__", "__lookupSetter__"}

\* the member of Object.prototype a lookup of that name finds: a function or, for
\* '__proto__', the prototype object; never a string
InheritedMember(targetId) == [inherited |-> targetId]

\* TARGET_IDS[targetId] ?? targetId: a property lookup on a plain object
getTargetName(targetId) ==
    IF \E i \in 1..Len(TARGET_IDS) : TARGET_IDS[i].id = targetId
    THEN (CHOOSE e \in Range(TARGET_IDS) : e.id = targetId).name
    ELSE IF targetId \in ObjectPrototypeMembers THEN InheritedMember(targetId)
    ELSE targetId

\* String.prototype.toLowerCase on the letters A to Z
LowerOf ==
    "A" :> "a" @@ "B" :> "b" @@ "C" :> "c" @@ "D" :> "d" @@ "E" :> "e" @@ "F" :> "f" @@
    "G" :> "g" @@ "H" :> "h" @@ "I" :> "i" @@ "J" :> "j" @@ "K" :> "k" @@ "L" :> "l" @@
    "M" :> "m" @@ "N" :> "n" @@ "O" :> "o" @@ "P" :> "p" @@ "Q" :> "q" @@ "R" :> "r" @@
    "S" :> "s" @@ "T" :> "t" @@ "U" :> "u" @@ "V" :> "v" @@ "W" :> "w" @@ "X" :> "x" @@
    "Y" :> "y" @@ "Z" :> "z"

RECURSIVE toLowerCase(_)
toLowerCase(str) ==
    IF str = "" THEN ""
    ELSE LET c == SubSeq(str, 1, 1) IN
         (IF c \in DOMAIN LowerOf THEN LowerOf[c] ELSE c)
            \o toLowerCase(SubSeq(str, 2, Len(str)))

\* String.prototype.includes(searchString)
includes(str, searchString) ==
    \E i \in 1..(Len(str) - Len(searchString) + 1) :
        SubSeq(str, i, i + Len(searchString) - 1) = searchString

\* name.toLowerCase().includes('static')
IncludesStatic(name) == includes(toLowerCase(name), "static")

\* what getCategoryFromTargetId throws when name is not a string
TypeErrorNotAFunction == "TypeError: name.toLowerCase is not a function"

\* getCategoryFromTargetId(targetId): 'STATIC', 'API', or the TypeError it throws when the
\* lookup found a member of Object.prototype (truthy, and without toLowerCase)
getCategoryFromTargetId(targetId) ==
    IF targetId \in ObjectPrototypeMembers THEN TypeErrorNotAFunction
    ELSE
    LET name == getTargetName(targetId) IN
    IF name # "" /\ IncludesStatic(name) THEN "STATIC" ELSE "API"

-----------------------------------------------------------------------------
(* Numbers: the IEEE 754 double-precision arithmetic of JavaScript, on the values the
   matcher computes.  A finite double x >= 0 is written as the natural number x * 2^60,
   held as its digits in base 2^15, least significant first, without leading zeros (0 is
   the empty sequence).  Every double that is 0 or at least 2^-7 is such a number, exactly.
   Each operation computes the exact result and rounds it to 53 significant bits, ties to
   even, as the hardware does. *)

LimbBits == 15
LimbBase == 32768
\* 2^60 = LimbBase^4: four digits after the binary point
FractionLimbs == 4
\* the bits of the significand of a double
SignificandBits == 53

RECURSIVE BigNormalize(_)
BigNormalize(a) ==
    IF a = <<>> THEN a
    ELSE IF a[Len(a)] = 0 THEN BigNormalize(SubSeq(a, 1, Len(a) - 1))
    ELSE a

RECURSIVE BigOfInt(_)
BigOfInt(n) == IF n = 0 THEN <<>> ELSE <<n % LimbBase>> \o BigOfInt(n \div LimbBase)

Limb(a, i) == IF i <= Len(a) THEN a[i] ELSE 0

RECURSIVE BigAddFrom(_, _, _, _)
BigAddFrom(a, b, i, carry) ==
    IF i > Len(a) /\ i > Len(b)
    THEN (IF carry = 0 THEN <<>> ELSE <<carry>>)
    ELSE LET sum == Limb(a, i) + Limb(b, i) + carry
         IN  <<sum % LimbBase>> \o BigAddFrom(a, b, i + 1, sum \div LimbBase)

BigAdd(a, b) == BigAddFrom(a, b, 1, 0)

RECURSIVE BigSubFrom(_, _, _, _)
BigSubFrom(a, b, i, borrow) ==
    IF i > Len(a) THEN <<>>
    ELSE LET diff == a[i] - Limb(b, i) - borrow
         IN  <<IF diff < 0 THEN diff + LimbBase ELSE diff>>
                \o BigSubFrom(a, b, i + 1, IF diff < 0 THEN 1 ELSE 0)

\* a - b, for a >= b
BigSub(a, b) == BigNormalize(BigSubFrom(a, b, 1, 0))

RECURSIVE BigLessFrom(_, _, _)
BigLessFrom(a, b, i) ==
    IF i = 0 THEN FALSE
    ELSE IF a[i] # b[i] THEN a[i] < b[i]
    ELSE BigLessFrom(a, b, i - 1)

BigLess(a, b) == IF Len(a) # Len(b) THEN Len(a) < Len(b) ELSE BigLessFrom(a, b, Len(a))

RECURSIVE BigMulSmallFrom(_, _, _, _)
BigMulSmallFrom(a, k, i, carry) ==
    IF i > Len(a) THEN (IF carry = 0 THEN <<>> ELSE <<carry>>)
    ELSE LET prod == a[i] * k + carry
         IN  <<prod % LimbBase>> \o BigMulSmallFrom(a, k, i + 1, prod \div LimbBase)

\* a * k, for 0 <= k < LimbBase
BigMulSmall(a, k) == BigNormalize(BigMulSmallFrom(a, k, 1, 0))

RECURSIVE BigMul(_, _)
BigMul(a, b) ==
    IF b = <<>> \/ a = <<>> THEN <<>>
    ELSE BigAdd(BigMulSmall(a, b[1]),
                LET rest == BigMul(a, Tail(b)) IN IF rest = <<>> THEN <<>> ELSE <<0>> \o rest)

\* quotient and remainder of a by k, for 0 < k < LimbBase; the digits from i down
RECURSIVE BigDivSmallFrom(_, _, _, _)
BigDivSmallFrom(a, k, i, rem) ==
    IF i = 0 THEN [quotient |-> <<>>, remainder |-> rem]
    ELSE LET cur == rem * LimbBase + a[i]
             rest == BigDivSmallFrom(a, k, i - 1, cur % k)
         IN  [quotient |-> Append(rest.quotient, cur \div k), remainder |-> rest.remainder]

BigDivSmall(a, k) ==
    LET r == BigDivSmallFrom(a, k, Len(a), 0)
    IN  [quotient |-> BigNormalize(r.quotient), remainder |-> r.remainder]

RECURSIVE BitLength(_)
BitLength(n) == IF n = 0 THEN 0 ELSE 1 + BitLength(n \div 2)

BigBitLength(a) == IF a = <<>> THEN 0 ELSE LimbBits * (Len(a) - 1) + BitLength(a[Len(a)])

\* 2^r
BigPow2(r) == [i \in 1..(r \div LimbBits) |-> 0] \o <<2 ^ (r % LimbBits)>>

\* a mod 2^r
BigModPow2(a, r) ==
    LET whole == r \div LimbBits
        part == 2 ^ (r % LimbBits)
    IN  BigNormalize([i \in 1..(whole + 1) |->
                        IF i <= whole THEN Limb(a, i) ELSE Limb(a, i) % part])

\* bit r of a, bit 0 being the lowest
BigBit(a, r) == (Limb(a, (r \div LimbBits) + 1) \div (2 ^ (r % LimbBits))) % 2

\* the number with at most 53 significant bits nearest to a (+ a positive part below one
\* unit when inexact holds); a tie goes to the even significand
RoundToDouble(a, inexact) ==
    LET excess == BigBitLength(a) - SignificandBits IN
    IF excess <= 0 THEN a
    ELSE
    LET dropped == BigModPow2(a, excess)
        half == BigPow2(excess - 1)
        down == BigSub(a, dropped)
        roundUp == \/ BigLess(half, dropped)
                   \/ (dropped = half /\ (inexact \/ BigBit(a, excess) = 1))
    IN  IF roundUp THEN BigAdd(down, BigPow2(excess)) ELSE down

\* the value Infinity
Infinity == <<-1>>

\* the double of an integer 0 <= n < 2^31
DoubleOfInt(n) ==
    IF n = 0 THEN <<>> ELSE [i \in 1..FractionLimbs |-> 0] \o BigOfInt(n)

\* the double nearest to n / d, for integers n >= 0 and 0 < d < LimbBase: the value of
\* the division n / d of two doubles, and of a decimal literal or numeric string n / d
DoubleOfRatio(n, d) ==
    LET r == BigDivSmall(DoubleOfInt(n), d)
    IN  RoundToDouble(r.quotient, r.remainder # 0)

\* a < b
DoubleLess(a, b) ==
    IF a = Infinity THEN FALSE
    ELSE IF b = Infinity THEN TRUE
    ELSE BigLess(a, b)

\* a <= b
DoubleLessEq(a, b) == a = b \/ DoubleLess(a, b)

\* Math.abs(a - b)
DoubleAbsDiff(a, b) ==
    RoundToDouble(IF BigLess(a, b) THEN BigSub(b, a) ELSE BigSub(a, b), FALSE)

\* a + b
DoubleAdd(a, b) == RoundToDouble(BigAdd(a, b), FALSE)

\* a * b: the exact product has 2 * FractionLimbs digits after the point; the rounded one
\* has its low FractionLimbs digits zero
DoubleMul(a, b) ==
    LET rounded == RoundToDouble(BigMul(a, b), FALSE)
    IN  SubSeq(rounded, FractionLimbs + 1, Len(rounded))

-----------------------------------------------------------------------------
(* Timestamps *)

\* parseDate: new Date("YYYY-MM-DDTHH:mm:ss") reads the civil time as local time
parseDate(dateStr) ==
    IF dateStr = NULL THEN NULL
    ELSE Some(dateStr[1] - tz * SecondsPerMinute)

\* date.toISOString().split('T')[0], then new Date(thatString): UTC midnight of the UTC day
UtcDateOnly(date) == (date \div SecondsPerDay) * SecondsPerDay

\* d.setSeconds(0, 0): the seconds of the local wall-clock time are cleared
SetSecondsZero(date) ==
    LET local == date + tz * SecondsPerMinute
    IN  (local - (local % SecondsPerMinute)) - tz * SecondsPerMinute

\* timeDiffMinutes(date1, date2) of two Date | null: Math.abs(ms1 - ms2) / (1000 * 60), a
\* double; Infinity when one of the two is null
timeDiffMinutes(date1, date2) ==
    IF date1 = NULL \/ date2 = NULL THEN Infinity
    ELSE DoubleOfRatio(Abs(date1[1] - date2[1]), SecondsPerMinute)

\* 2026-01-01 is a Thursday: new Date(Date.UTC(2026, 0, 1)).getUTCDay()
EpochWeekday == 4
\* day numbers of 2026-03-01 and 2026-11-01, counted from 2026-01-01
March1 == 59
Nov1 == 304
DaysPerWeek == 7
SecondsPerHour == 3600
\* Date.UTC(year, month, day, 7, 0, 0): the hour of both transitions
DstSwitchHourUtc == 7
EdtOffsetHours == 4
EstOffsetHours == 5

\* a variant that takes both transitions at 00:00:00Z of their Sundays
isDateInDST_FromMidnight(date) ==
    LET march1Day == (EpochWeekday + March1) % DaysPerWeek
        daysToSecondSunday == ((DaysPerWeek - march1Day) % DaysPerWeek) + DaysPerWeek
        nov1Day == (EpochWeekday + Nov1) % DaysPerWeek
        daysToFirstSunday == (DaysPerWeek - nov1Day) % DaysPerWeek
    IN  /\ date >= (March1 + daysToSecondSunday) * SecondsPerDay
        /\ date < (Nov1 + daysToFirstSunday) * SecondsPerDay

\* isDateInDST, for the instants of 2026
isDateInDST(date) ==
    LET march1Day == (EpochWeekday + March1) % DaysPerWeek
        daysToSecondSunday == ((DaysPerWeek - march1Day) % DaysPerWeek) + DaysPerWeek
        dstStart == (March1 + daysToSecondSunday) * SecondsPerDay
                        + DstSwitchHourUtc * SecondsPerHour
        nov1Day == (EpochWeekday + Nov1) % DaysPerWeek
        daysToFirstSunday == (DaysPerWeek - nov1Day) % DaysPerWeek
        dstEnd == (Nov1 + daysToFirstSunday) * SecondsPerDay
                        + DstSwitchHourUtc * SecondsPerHour
    IN  date >= dstStart /\ date < dstEnd

\* convertRingbaDateToEST: "MM/DD/YYYY hh:mm:ss AM/PM" (UTC) to "YYYY-MM-DDTHH:mm:ss" (Eastern)
convertRingbaDateToEST(ringbaDateStr) ==
    IF ringbaDateStr = NULL THEN NULL
    ELSE LET utcDate == ringbaDateStr[1]
             estOffsetHours == IF isDateInDST(utcDate) THEN EdtOffsetHours ELSE EstOffsetHours
         IN  Some(utcDate - estOffsetHours * SecondsPerHour)

\* getEasternDatePart: the hours it subtracts from the UTC instant (4 means offset -4h)
\* and the calendar day of the result, as a day number counted from 2026-01-01
getEasternDatePart(date) ==
    LET utc == date
        offsetHours == IF isDateInDST(date) THEN EdtOffsetHours ELSE EstOffsetHours
        eastern == utc - offsetHours * SecondsPerHour
    IN  [offsetHours |-> offsetHours, datePart |-> eastern \div SecondsPerDay]

-----------------------------------------------------------------------------
(* Matcher *)

WindowMinutes == 120
AdjacentDayWindowMinutes == 1440
PayoutToleranceCents == 1
CentsPerUnit == 100

Zero == DoubleOfInt(0)

\* Number(value) of an amount of money: the double nearest to the decimal value.  The
\* model holds amounts in cents.
NumberOfCents(cents) == DoubleOfRatio(cents, CentsPerUnit)

\* const payoutTolerance = 0.01: the double nearest to 1/100
payoutTolerance == DoubleOfRatio(PayoutToleranceCents, CentsPerUnit)

\* the literal 0.1 of matchScore = timeDiff * 0.1: the double nearest to 1/10
OneTenth == DoubleOfRatio(1, 10)

\* the literal 10 of matchScore = timeDiff + payoutDiff * 10
PenaltyFactor == 10

\* matchCall(ringbaCall, elocalCall): NULL, or the MatchResult
\* daysDiff > 1, wrongly: only the same day passes
exceedsDayWindow_SameDayOnly(daysDiff) == daysDiff > 0

\* matchCall: if (daysDiff > 1) return null
exceedsDayWindow(daysDiff) == daysDiff > 1

\* a variant of matchCall that rejects a candidate whose payout differs from the origin
\* record's by more than the tolerance when both are given
matchCall_PayoutMustAgree(ringbaCall, elocalCall) ==
    LET elocalDate == parseDate(elocalCall.call_timestamp)
        ringbaDate == parseDate(ringbaCall.callDt)
    IN
    IF elocalDate = NULL \/ ringbaDate = NULL THEN NULL
    ELSE
    LET daysDiff == Abs(UtcDateOnly(elocalDate[1]) - UtcDateOnly(ringbaDate[1]))
                        \div SecondsPerDay
        timeDiff == timeDiffMinutes(Some(SetSecondsZero(elocalDate[1])),
                                    Some(SetSecondsZero(ringbaDate[1])))
        effectiveWindow == IF daysDiff = 0 THEN WindowMinutes ELSE AdjacentDayWindowMinutes
        elocalPayout == NumberOfCents(elocalCall.elocal_payout)
        ringbaPayout == NumberOfCents(ringbaCall.payout)
        payoutDiff == DoubleAbsDiff(elocalPayout, ringbaPayout)
        bothGiven == DoubleLess(Zero, elocalPayout) /\ DoubleLess(Zero, ringbaPayout)
    IN
    IF exceedsDayWindow(daysDiff) THEN NULL
    ELSE IF DoubleLess(DoubleOfInt(effectiveWindow), timeDiff) THEN NULL
    ELSE IF bothGiven /\ ~DoubleLessEq(payoutDiff, payoutTolerance) THEN NULL
    ELSE Some([elocalCall |-> elocalCall,
               ringbaCall |-> ringbaCall,
               matchScore |-> IF bothGiven THEN DoubleMul(timeDiff, OneTenth) ELSE timeDiff,
               timeDiff |-> timeDiff,
               payoutDiff |-> payoutDiff,
               payoutMatch |-> DoubleLessEq(payoutDiff, payoutTolerance)])

\* matchCall(ringbaCall, elocalCall): NULL, or the MatchResult; its numbers are doubles
matchCall(ringbaCall, elocalCall) ==
    LET elocalDate == parseDate(elocalCall.call_timestamp)
        ringbaDate == parseDate(ringbaCall.callDt)
    IN
    IF elocalDate = NULL \/ ringbaDate = NULL THEN NULL
    ELSE
    LET daysDiff == Abs(UtcDateOnly(elocalDate[1]) - UtcDateOnly(ringbaDate[1]))
                        \div SecondsPerDay
        timeDiff == timeDiffMinutes(Some(SetSecondsZero(elocalDate[1])),
                                    Some(SetSecondsZero(ringbaDate[1])))
        effectiveWindow == IF daysDiff = 0 THEN WindowMinutes ELSE AdjacentDayWindowMinutes
        elocalPayout == NumberOfCents(elocalCall.elocal_payout)
        ringbaPayout == NumberOfCents(ringbaCall.payout)
        payoutDiff == DoubleAbsDiff(elocalPayout, ringbaPayout)
        matchScore ==
            IF DoubleLess(Zero, elocalPayout) /\ DoubleLess(Zero, ringbaPayout)
            THEN IF DoubleLessEq(payoutDiff, payoutTolerance)
                 THEN DoubleMul(timeDiff, OneTenth)
                 ELSE DoubleAdd(timeDiff, DoubleMul(payoutDiff, DoubleOfInt(PenaltyFactor)))
            ELSE timeDiff
    IN
    IF exceedsDayWindow(daysDiff) THEN NULL
    ELSE IF DoubleLess(DoubleOfInt(effectiveWindow), timeDiff) THEN NULL
    ELSE Some([elocalCall |-> elocalCall,
               ringbaCall |-> ringbaCall,
               matchScore |-> matchScore,
               timeDiff |-> timeDiff,
               payoutDiff |-> payoutDiff,
               payoutMatch |-> DoubleLessEq(payoutDiff, payoutTolerance)])

\* elocalCall.category || 'STATIC'
CategoryOrStatic(category) == IF category = "" THEN "STATIC" ELSE category

\* a variant that indexes the rows by caller only
candidateElocalCalls_AnyCategory(elocalCallList, category, callerE164) ==
    LET InBucket(e) == /\ toE164(e.caller_id) # NULL
                       /\ toE164(e.caller_id) = callerE164
    IN  SelectSeq(elocalCallList, InBucket)

\* elocalCallsByCategoryAndCaller.get(category).get(callerE164) || []: the rows of the
\* bucket, in the order of elocalCalls
candidateElocalCalls(elocalCallList, category, callerE164) ==
    LET InBucket(e) == /\ toE164(e.caller_id) # NULL
                       /\ CategoryOrStatic(e.category) = category
                       /\ toE164(e.caller_id) = callerE164
    IN  SelectSeq(elocalCallList, InBucket)

\* matchedElocalIds.has(elocalCall.id), wrongly: no candidate counts as consumed
alreadyMatched_Never(matchedElocalIds, elocalCall) == FALSE

\* matchedElocalIds.has(elocalCall.id)
alreadyMatched(matchedElocalIds, elocalCall) == elocalCall.id \in matchedElocalIds

\* match.matchScore < bestScore, wrongly: an equal score wins too
lowerScore_OrEqual(matchScore, bestScore) == DoubleLessEq(matchScore, bestScore)

\* match.matchScore < bestScore (line 294)
lowerScore(matchScore, bestScore) == DoubleLess(matchScore, bestScore)

\* if (match && match.matchScore < bestScore) { bestMatch = match; bestScore = ... }
\* (lines 292-296): the best match after this candidate.  bestScore (line 286) is
\* Infinity as long as there is no best match, so a first match whose score is Infinity
\* is not below bestScore and is not taken.
betterMatch(match, bestMatch) ==
    IF /\ match # NULL
       /\ lowerScore(match[1].matchScore,
                     IF bestMatch = NULL THEN Infinity ELSE bestMatch[1].matchScore)
    THEN match
    ELSE bestMatch

\* the loop over candidateElocalCalls (lines 285-298), from candidate k on
RECURSIVE bestMatchFrom(_, _, _, _, _)
bestMatchFrom(ringbaCall, candidates, matchedElocalIds, k, bestMatch) ==
    IF k > Len(candidates) THEN bestMatch
    ELSE
    LET elocalCall == candidates[k]
    IN  bestMatchFrom(ringbaCall, candidates, matchedElocalIds, k + 1,
                      betterMatch(IF alreadyMatched(matchedElocalIds, elocalCall) THEN NULL
                                  ELSE matchCall(ringbaCall, elocalCall),
                                  bestMatch))

\* hasExistingData (lines 308-310), wrongly: a stored value counts even when it is zero
hasExistingData_NotNull(elocalCall) ==
    elocalCall.ringba_original_payout # NULL \/ elocalCall.ringba_original_revenue # NULL

\* hasExistingData (lines 308-310) of the matched target row
hasExistingData(elocalCall) ==
    LET existingOriginalPayout == OrElse(elocalCall.ringba_original_payout, 0)
        existingOriginalRevenue == OrElse(elocalCall.ringba_original_revenue, 0)
    IN  existingOriginalPayout # 0 \/ existingOriginalRevenue # 0

\* the end of one iteration (lines 300-323): without a best match the record is unmatched,
\* with one the row is consumed and the update is prepared
afterBestMatch(st, ringbaCall, bestMatch) ==
    IF bestMatch = NULL
    THEN [st EXCEPT !.unmatched = @ + 1]
    ELSE [st EXCEPT
            !.matchedElocalIds = @ \cup {bestMatch[1].elocalCall.id},
            !.updates = Append(@, [elocalCallId |-> bestMatch[1].elocalCall.id,
                                   ringbaInboundCallId |-> ringbaCall.inboundCallId,
                                   originalPayout |-> ringbaCall.payout,
                                   originalRevenue |-> ringbaCall.revenue]),
            !.skipped = IF hasExistingData(bestMatch[1].elocalCall) THEN @ + 1 ELSE @]

\* one iteration of the loop over ringbaCalls (lines 254-324); an error thrown by
\* getCategoryFromTargetId leaves the function, kept in the field thrown
matchOneRingbaCall(st, ringbaCall, elocalCallList) ==
    LET ringbaCategory == getCategoryFromTargetId(ringbaCall.targetId)
        callerE164 == IF ringbaCall.callerIdE164 # NULL THEN ringbaCall.callerIdE164
                      ELSE toE164(ringbaCall.callerId)
        candidates == candidateElocalCalls(elocalCallList, ringbaCategory, callerE164)
    IN
    IF ringbaCategory = TypeErrorNotAFunction THEN [st EXCEPT !.thrown = Some(ringbaCategory)]
    ELSE IF callerE164 = NULL \/ Len(candidates) = 0
    THEN [st EXCEPT !.unmatched = @ + 1]
    ELSE afterBestMatch(st, ringbaCall,
                        bestMatchFrom(ringbaCall, candidates, st.matchedElocalIds, 1, NULL))

RECURSIVE matchLoop(_, _, _, _)
matchLoop(st, ringbaCallList, elocalCallList, i) ==
    IF i > Len(ringbaCallList) \/ st.thrown # NULL THEN st
    ELSE matchLoop(matchOneRingbaCall(st, ringbaCallList[i], elocalCallList),
                   ringbaCallList, elocalCallList, i + 1)

\* return { updates, unmatched, skipped } (line 326), or the error the loop threw
resultOf(st) ==
    IF st.thrown # NULL THEN [throws |-> st.thrown[1]]
    ELSE [updates |-> st.updates, unmatched |-> st.unmatched, skipped |-> st.skipped]

\* matchAndPrepareUpdates(ringbaCalls, elocalCalls): the PrepareUpdatesResult, or the
\* error the loop threw
matchAndPrepareUpdates(ringbaCallList, elocalCallList) ==
    resultOf(matchLoop([updates |-> <<>>, unmatched |-> 0, skipped |-> 0,
                        matchedElocalIds |-> {}, thrown |-> NULL],
                       ringbaCallList, elocalCallList, 1))

\* the call ended with an error
Throws(result) == "throws" \in DOMAIN result

-----------------------------------------------------------------------------
(* Persistence gateway: table elocal_call_data *)

\* COALESCE(column, value), wrongly: the value always replaces the column
Coalesce_Overwrite(column, value) == value

\* COALESCE(column, value)
Coalesce(column, value) == IF column # NULL THEN column ELSE value

\* updateOriginalPayout(callId, originalPayout, originalRevenue, ringbaInboundCallId):
\* the table after the UPDATE, and RETURNING id's row count
updateOriginalPayout(table, callId, originalPayout, originalRevenue, ringbaInboundCallId) ==
    [table |->
        [i \in 1..Len(table) |->
            IF table[i].id = callId
            THEN [table[i] EXCEPT
                    !.ringba_original_payout = Coalesce(@, Some(originalPayout)),
                    !.ringba_original_revenue = Coalesce(@, Some(originalRevenue)),
                    !.ringba_id = Coalesce(@, ringbaInboundCallId)]
            ELSE table[i]],
     updated |-> Cardinality({i \in 1..Len(table) : table[i].id = callId})]

\* updateCallWithAdjustment(callId, adjustmentData): the table after the UPDATE, which
\* sets elocal_payout of the row, and RETURNING id's row count
updateCallWithAdjustment(table, callId, elocalPayout) ==
    [table |->
        [i \in 1..Len(table) |->
            IF table[i].id = callId
            THEN [table[i] EXCEPT !.elocal_payout = elocalPayout]
            ELSE table[i]],
     updated |-> Cardinality({i \in 1..Len(table) : table[i].id = callId})]

\* updateRingbaInboundCallId([match]): the table after the UPDATE, which sets ringba_id
\* of the row whatever it holds, and the count of rows updated
updateRingbaInboundCallId(table, elocalCallId, ringbaInboundCallId) ==
    [table |->
        [i \in 1..Len(table) |->
            IF table[i].id = elocalCallId
            THEN [table[i] EXCEPT !.ringba_id = Some(ringbaInboundCallId)]
            ELSE table[i]],
     updated |-> Cardinality({i \in 1..Len(table) : table[i].id = elocalCallId})]

\* SELECT id FROM elocal_call_data WHERE caller_id = .. AND call_timestamp = ..
\* AND category = .. LIMIT 1, as "is there such a row"
existsElocalCall(table, callerId, timestamp, category) ==
    \E i \in 1..Len(table) :
        /\ table[i].caller_id = callerId
        /\ table[i].call_timestamp = timestamp
        /\ table[i].category = category

\* value || null, for a string: '' becomes null
OrNull(value) == IF value = <<"">> THEN NULL ELSE value

\* UNIQUE(caller_id, call_timestamp, category): two rows of the table have one key
violatesUniqueCall(table) ==
    \E i, j \in 1..Len(table) :
        /\ i # j
        /\ table[i].caller_id = table[j].caller_id
        /\ table[i].call_timestamp = table[j].call_timestamp
        /\ table[i].category = table[j].category

\* insertCallsBatch, lines 131-138: what an iteration computes from the call before its
\* first statement
lookupOf(call) ==
    [normalizedCallerId |-> IF toE164_neon(call.callerId) # NULL
                            THEN toE164_neon(call.callerId) ELSE call.callerId,
     lookupTimestamp |-> IF call.originalDateOfCall # NULL THEN call.originalDateOfCall
                         ELSE call.dateOfCall,
     category |-> CategoryOrStatic(call.category),
     isTimestampCorrection |-> /\ call.originalDateOfCall # NULL
                               /\ call.originalDateOfCall # call.dateOfCall]

\* correctedTimestamp after the duplicate check (lines 141-156); duplicateCheck: the
\* check found a row
correctedTimestampOf(call, duplicateCheck) ==
    IF lookupOf(call).isTimestampCorrection /\ duplicateCheck
    THEN lookupOf(call).lookupTimestamp ELSE call.dateOfCall

\* insertCallsBatch, the UPDATE or INSERT of an iteration (lines 167-251) on the table as
\* it is when the statement arrives; duplicateCheck, existingCall and
\* existsWithCorrectedTimestamp are what the SELECTs before it have found.  A statement
\* that would leave two rows with one key is refused: it throws and the table stays.
writeElocalCall(table, call, duplicateCheck, existingCall, existsWithCorrectedTimestamp) ==
    LET key == lookupOf(call)
        correctedTimestamp == correctedTimestampOf(call, duplicateCheck)
        Hit(row, timestamp) == /\ row.caller_id = key.normalizedCallerId
                               /\ row.call_timestamp = timestamp
                               /\ row.category = key.category
        after ==
            IF existingCall
            THEN [i \in 1..Len(table) |->
                    IF Hit(table[i], key.lookupTimestamp)
                    THEN [table[i] EXCEPT
                            !.call_timestamp = correctedTimestamp,
                            !.elocal_payout = call.elocalPayout,
                            !.category = key.category,
                            !.ringba_id = OrNull(call.ringbaInboundCallId),
                            !.ringba_original_payout = call.ringbaOriginalPayout,
                            !.ringba_original_revenue = call.ringbaOriginalRevenue]
                    ELSE table[i]]
            ELSE IF existsWithCorrectedTimestamp
            THEN [i \in 1..Len(table) |->
                    IF Hit(table[i], correctedTimestamp)
                    THEN [table[i] EXCEPT
                            !.elocal_payout = call.elocalPayout,
                            !.ringba_id = OrNull(call.ringbaInboundCallId),
                            !.ringba_original_payout = call.ringbaOriginalPayout,
                            !.ringba_original_revenue = call.ringbaOriginalRevenue]
                    ELSE table[i]]
            ELSE Append(table,
                    [id |-> Len(table) + 1,
                     caller_id |-> key.normalizedCallerId,
                     call_timestamp |-> correctedTimestamp,
                     elocal_payout |-> call.elocalPayout,
                     category |-> key.category,
                     ringba_id |-> OrNull(call.ringbaInboundCallId),
                     ringba_original_payout |-> call.ringbaOriginalPayout,
                     ringba_original_revenue |-> call.ringbaOriginalRevenue])
    IN  IF violatesUniqueCall(after) THEN [table |-> table, thrown |-> TRUE]
        ELSE [table |-> after, thrown |-> FALSE]

\* insertCallsBatch, one iteration of its loop with nothing between its statements: the
\* table after the call is saved
insertOneCall(table, call) ==
    LET key == lookupOf(call)
        duplicateCheck ==
            /\ key.isTimestampCorrection
            /\ existsElocalCall(table, key.normalizedCallerId, call.dateOfCall, key.category)
    IN  writeElocalCall(table, call, duplicateCheck,
                        existsElocalCall(table, key.normalizedCallerId, key.lookupTimestamp,
                                         key.category),
                        existsElocalCall(table, key.normalizedCallerId,
                                         correctedTimestampOf(call, duplicateCheck),
                                         key.category)).table

\* insertCallsBatch(calls): the table after the batch
RECURSIVE insertCallsBatch(_, _)
insertCallsBatch(table, calls) ==
    IF calls = <<>> THEN table
    ELSE insertCallsBatch(insertOneCall(table, Head(calls)), Tail(calls))

\* the printable characters in the order of their codes, from the space on (the double
\* quote, the backslash and the backquote left out)
CharsByCode ==
    <<" ", "!", "#", "$", "%", "&", "'", "(", ")", "*", "+", ",", "-", ".", "/",
      "0", "1", "2", "3", "4", "5", "6", "7", "8", "9", ":", ";", "<", "=", ">", "?",
      "@", "A", "B", "C", "D", "E", "F", "G", "H", "I", "J", "K", "L", "M", "N", "O",
      "P", "Q", "R", "S", "T", "U", "V", "W", "X", "Y", "Z", "[", "]", "^", "_",
      "a", "b", "c", "d", "e", "f", "g", "h", "i", "j", "k", "l", "m", "n", "o",
      "p", "q", "r", "s", "t", "u", "v", "w", "x", "y", "z", "{", "|", "}", "~">>

\* the rank of a character in ORDER BY caller_id: text is compared byte by byte, so the
\* characters rank in the order of their codes
CharRank(c) == CHOOSE i \in DOMAIN CharsByCode : CharsByCode[i] = c

\* a < b for strings: the first character that differs decides, a proper prefix is less
RECURSIVE StringLess(_, _)
StringLess(a, b) ==
    IF b = <<>> THEN FALSE
    ELSE IF a = <<>> THEN TRUE
    ELSE IF CharRank(Head(a)) # CharRank(Head(b)) THEN CharRank(Head(a)) < CharRank(Head(b))
    ELSE StringLess(Tail(a), Tail(b))

\* ORDER BY caller_id, call_timestamp: row a sorts before row b
RowBefore(a, b) ==
    \/ StringLess(a.caller_id, b.caller_id)
    \/ /\ a.caller_id = b.caller_id
       /\ OrElse(a.call_timestamp, -1) < OrElse(b.call_timestamp, -1)

\* the orders in which the engine may return the rows of a set under ORDER BY caller_id,
\* call_timestamp: rows equal in both columns come in any order
RECURSIVE OrderRows(_)
OrderRows(rows) ==
    IF rows = {} THEN {<<>>}
    ELSE UNION {{<<first>> \o rest : rest \in OrderRows(rows \ {first})} :
                    first \in {r \in rows : \A q \in rows : ~RowBefore(q, r)}}

\* the dates of the query, wrongly: every UTC day from the day before startDate to the
\* day after endDate, whatever the times of day of the two instants
datesInRange_WholeDays(startDate, endDate) ==
    ((startDate \div SecondsPerDay) - 1) .. ((endDate \div SecondsPerDay) + 1)

\* getCallsForDateRange: current starts one day before startDate, end is one day after
\* endDate; the UTC date of current is taken and current moved on by a day while
\* current <= end
datesInRange(startDate, endDate) ==
    LET current == startDate - SecondsPerDay
        end == endDate + SecondsPerDay
    IN  {(current + k * SecondsPerDay) \div SecondsPerDay :
            k \in 0 .. ((end - current) \div SecondsPerDay)}

\* getCallsForDateRange(startDate, endDate, category): the results the query may return,
\* one for every order the engine may give the rows
getCallsForDateRange(table, startDate, endDate, category) ==
    LET Selected(row) == /\ row.call_timestamp # NULL
                         /\ (row.call_timestamp[1] \div SecondsPerDay)
                                \in datesInRange(startDate, endDate)
                         /\ (category # NULL => row.category = category[1])
    IN  OrderRows({table[i] : i \in {j \in 1..Len(table) : Selected(table[j])}})

-----------------------------------------------------------------------------
(* Persistence gateway: table ringba_original_sync *)

\* the row insertRingbaCallsBatch writes for a call
MirrorRow(call) ==
    [ringba_id |-> call.inboundCallId,
     call_timestamp |-> call.callDt,
     caller_id |-> call.callerId,
     ringba_payout |-> call.payout,
     ringba_revenue_amount |-> call.revenue,
     target_id |-> call.targetId]

\* SELECT id FROM ringba_original_sync WHERE ringba_id = .. LIMIT 1, as "is there a row"
existsRingbaId(table, ringbaId) == \E i \in 1..Len(table) : table[i].ringba_id = ringbaId

\* ringba_id VARCHAR(255) UNIQUE NOT NULL: an INSERT of this ringba_id would be refused
violatesUniqueRingbaId(table, ringbaId) ==
    \E i \in 1..Len(table) : table[i].ringba_id = ringbaId

\* insertRingbaCallsBatch, the second statement of an iteration, wrongly: always an
\* INSERT, into a table without the UNIQUE constraint
writeRingbaCall_AlwaysInsert(acc, call, existing) ==
    [acc EXCEPT !.table = Append(@, MirrorRow(call)), !.inserted = @ + 1]

\* insertRingbaCallsBatch, the second statement of an iteration: the UPDATE when the
\* SELECT found a row (existing), the INSERT when it found none.  acc.table is the table
\* as it is when the statement arrives: an INSERT of a ringba_id it holds by then throws
\* and the catch counts the call as skipped.
writeRingbaCall(acc, call, existing) ==
    IF existing
    THEN [acc EXCEPT
            !.table = [i \in 1..Len(acc.table) |->
                        IF acc.table[i].ringba_id = call.inboundCallId
                        THEN MirrorRow(call) ELSE acc.table[i]],
            !.updated = @ + 1]
    ELSE IF violatesUniqueRingbaId(acc.table, call.inboundCallId)
    THEN [acc EXCEPT !.skipped = @ + 1]
    ELSE [acc EXCEPT !.table = Append(@, MirrorRow(call)), !.inserted = @ + 1]

-----------------------------------------------------------------------------
(* Origin feed records *)

\* fetchAllRingbaCalls, lines 99-128: one RingbaCallRecord of the API answer for
\* targetId becomes one RingbaCallForSync
toRingbaCallForSync(call, targetId) ==
    LET ringbaCallerId == call.callerId
        callerIdE164 == IF ringbaCallerId = <<>> THEN NULL
                        ELSE IF ringbaCallerId[1] = "+" THEN ringbaCallerId
                        ELSE toE164(ringbaCallerId)
        converted == convertRingbaDateToEST(call.callDate)
    IN  [inboundCallId |-> OrElse(call.inboundCallId, ""),
         callDt |-> IF call.callDate # NULL /\ converted # NULL THEN converted
                    ELSE call.callDate,
         callerId |-> ringbaCallerId,
         callerIdE164 |-> callerIdE164,
         payout |-> call.payout,
         revenue |-> call.revenue,
         targetId |-> targetId]

-----------------------------------------------------------------------------
(* Input domains *)

MaxOrigin == 2
MaxTarget == 2

At(day, h, m, s) == day * SecondsPerDay + h * SecondsPerHour + m * SecondsPerMinute + s

\* day number of 2026-02-03
Feb3 == 31 + 2

PhoneA == <<"5", "5", "5", "1", "2", "3", "4", "5", "6", "7">>
PhoneB == <<"5", "5", "5", "9", "8", "7", "6", "5", "4", "3">>

\* time zones of the process: America/New_York in winter, UTC
ProcessTZ == {-300, 0}

\* Eastern civil times of calls
MatchTimes == {At(Feb3, 17, 0, 0), At(Feb3, 20, 20, 0)}
WindowTimes == {At(Feb3, 17, 0, 0), At(Feb3, 17, 5, 30), At(Feb3, 20, 20, 0),
                At(Feb3, 23, 55, 0), At(Feb3 + 1, 0, 10, 0)}

\* the Ringba API reports the same moment in UTC; these days are standard time
EasternToUtc(t) == t + EstOffsetHours * SecondsPerHour

\* an API record of the origin feed
RingbaCallRecord(id, phone, easternTime, payout, revenue) ==
    [inboundCallId |-> id, callDate |-> Some(EasternToUtc(easternTime)),
     callerId |-> phone, payout |-> payout, revenue |-> revenue]

\* a row of elocal_call_data as insertCallsBatch stores it from the eLocal feed
ElocalRow(id, phone, category, time, payout) ==
    [id |-> id,
     caller_id |-> IF toE164_neon(phone) # NULL THEN toE164_neon(phone) ELSE phone,
     call_timestamp |-> Some(time),
     elocal_payout |-> payout, category |-> category,
     ringba_id |-> NULL, ringba_original_payout |-> NULL, ringba_original_revenue |-> NULL]

\* origin lists: the i-th record carries inboundCallId ToString(i)
OriginList(f) ==
    [i \in 1..Len(f) |->
        toRingbaCallForSync(
            RingbaCallRecord(Some(ToString(i)), f[i].phone, f[i].time, f[i].payout,
                             f[i].revenue),
            f[i].targetId)]

\* target lists: the i-th row has id i
TargetList(f) ==
    [i \in 1..Len(f) |-> ElocalRow(i, f[i].phone, f[i].category, f[i].time, f[i].payout)]

OriginAttrs(phones, targetIds, times, payouts) ==
    [phone : phones, targetId : targetIds, time : times, payout : payouts, revenue : {2000}]

TargetAttrs(phones, categories, times, payouts) ==
    [phone : phones, category : categories, time : times, payout : payouts]

\* the state of a process that has taken no step of the sync yet
Idle(zone, origins, targets) ==
    /\ tz = zone
    /\ ringbaCalls = origins
    /\ elocalCalls = targets
    /\ elocal_call_data = <<>>
    /\ ringba_original_sync = <<>>
    /\ ringbaApi = <<>>
    /\ syncArgs = NULL
    /\ saveResult = NULL
    /\ prepared = NULL
    /\ summaries = <<>>
    /\ snapshots = <<>>
    /\ opLog = <<>>
    /\ NoAux

-----------------------------------------------------------------------------
(* The matcher on its own: matchAndPrepareUpdates applied to input lists *)

\* lists that differ in phone and category
InitMatch ==
    /\ pc = "match"
    /\ \E zone \in ProcessTZ,
          f \in SeqsUpTo(OriginAttrs({PhoneA, PhoneB}, {TargetStatic, TargetApi},
                                     MatchTimes, {1200}), MaxOrigin),
          g \in SeqsUpTo(TargetAttrs({PhoneA, PhoneB}, {"STATIC", "API"},
                                     MatchTimes, {1200}), MaxTarget) :
            Idle(zone, OriginList(f), TargetList(g))

\* one origin record against candidates of its own bucket, which differ in time and payout
InitWindow ==
    /\ pc = "match"
    /\ \E zone \in ProcessTZ,
          f \in [1..1 -> OriginAttrs({PhoneA}, {TargetStatic}, WindowTimes, {0, 1200})],
          g \in SeqsUpTo(TargetAttrs({PhoneA}, {"STATIC"}, WindowTimes, {0, 1200}),
                         MaxTarget) :
            Idle(zone, OriginList(f), TargetList(g))

Match ==
    /\ pc = "match"
    /\ \E result \in {matchAndPrepareUpdates(ringbaCalls, elocalCalls)} :
            IF Throws(result)
            THEN prepared' = NULL /\ pc' = "threw"
            ELSE prepared' = Some(result) /\ pc' = "matched"
    /\ UNCHANGED <<auxVars, tz, storeVars, ringbaApi, syncArgs, ringbaCalls, saveResult, elocalCalls,
                   summaries, snapshots, opLog>>

NextMatch == Match

SpecMatch == InitMatch /\ [][NextMatch]_vars

SpecWindow == InitWindow /\ [][NextMatch]_vars

-----------------------------------------------------------------------------
(* The persistence gateway on its own: its operations called by callers that do not   *)
(* wait for one another, so that the statements of two operations may alternate      *)

MaxOps == 3

\* the calls the Ringba platform holds in this model, by inboundCallId
RingbaIds == {"r1", "r2"}

\* the calls insertCallsBatch is given: two timestamps of one caller, with and without a
\* timestamp correction, with and without payout from the eLocal feed
StoreElocalCalls ==
    [callerId : {PhoneA},
     dateOfCall : {Some(At(Feb3, 17, 5, 30)), Some(At(Feb3, 20, 20, 0))},
     originalDateOfCall : {NULL, Some(At(Feb3, 17, 5, 30))},
     elocalPayout : {1200},
     category : {"STATIC"},
     ringbaInboundCallId : {NULL},
     ringbaOriginalPayout : {NULL, Some(0), Some(500)},
     ringbaOriginalRevenue : {NULL}]

\* the arguments updateOriginalPayout is given, apart from the row id
StoreUpdates ==
    {[originalPayout |-> 0, originalRevenue |-> 0, ringbaInboundCallId |-> "r1"],
     [originalPayout |-> 1200, originalRevenue |-> 2000, ringbaInboundCallId |-> "r2"]}

\* the payouts updateCallWithAdjustment is given
StoreAdjustedPayouts == {900}

\* the calls insertRingbaCallsBatch is given
StoreRingbaCalls ==
    {toRingbaCallForSync(RingbaCallRecord(Some(id), PhoneA, At(Feb3, 17, 0, 0), payout, 2000),
                         TargetStatic)
        : id \in RingbaIds, payout \in {0, 700}}

InitStore ==
    /\ pc = "store"
    /\ tz = 0
    /\ elocal_call_data = <<>>
    /\ ringba_original_sync = <<>>
    /\ ringbaApi = <<>>
    /\ syncArgs = NULL
    /\ ringbaCalls = <<>>
    /\ saveResult = NULL
    /\ elocalCalls = <<>>
    /\ prepared = NULL
    /\ summaries = <<>>
    /\ snapshots = <<>>
    /\ opLog = <<>>
    /\ NoAux

\* a gateway operation that stands between two of its statements, as it starts: the
\* operation, its call, and what its SELECTs have found so far (none has been answered)
Entered(op, call) ==
    [op |-> op, call |-> call, duplicateCheck |-> NULL, existingCall |-> NULL,
     existsWithCorrectedTimestamp |-> NULL]

\* the operations that have been started: those that are through, and those that stand
\* between two statements (locals)
StartedOps == Len(opLog) + Len(locals)

\* a sequence without its n-th element
Without(s, n) == SubSeq(s, 1, n - 1) \o SubSeq(s, n + 1, Len(s))

\* the statement of insertCallsBatch that comes next for a call: the duplicate check of
\* a timestamp correction (lines 142-148), the lookup of the call (lines 159-165), the
\* lookup of the corrected timestamp when the call was not found (lines 195-201), or the
\* UPDATE or INSERT
nextStatement(p) ==
    IF lookupOf(p.call).isTimestampCorrection /\ p.duplicateCheck = NULL
    THEN "duplicateCheck"
    ELSE IF p.existingCall = NULL THEN "existingCall"
    ELSE IF ~p.existingCall[1] /\ p.existsWithCorrectedTimestamp = NULL
    THEN "existsWithCorrectedTimestamp"
    ELSE "write"

\* the next SELECT of insertCallsBatch for a call is answered from the table as it is
selectAnswered(table, p) ==
    LET key == lookupOf(p.call)
        Found(timestamp) ==
            Some(existsElocalCall(table, key.normalizedCallerId, timestamp, key.category))
    IN  IF nextStatement(p) = "duplicateCheck"
        THEN [p EXCEPT !.duplicateCheck = Found(p.call.dateOfCall)]
        ELSE IF nextStatement(p) = "existingCall"
        THEN [p EXCEPT !.existingCall = Found(key.lookupTimestamp)]
        ELSE [p EXCEPT !.existsWithCorrectedTimestamp =
                    Found(correctedTimestampOf(p.call, OrElse(p.duplicateCheck, FALSE)))]

\* db.insertCallsBatch([call]) is called: its first SELECT is answered
InsertCallsBatch ==
    /\ pc = "store"
    /\ StartedOps < MaxOps
    /\ \E call \in StoreElocalCalls :
        locals' = Append(locals,
                         selectAnswered(elocal_call_data, Entered("insertCallsBatch", call)))
    /\ UNCHANGED <<faults, scheduler, fnArg, fnResult, tz, pc, storeVars, ringbaApi,
                   syncArgs, runVars, summaries, snapshots, opLog>>

\* a further SELECT of an insertCallsBatch under way is answered
InsertCallsBatchSelect ==
    /\ pc = "store"
    /\ \E n \in 1..Len(locals) :
        /\ locals[n].op = "insertCallsBatch"
        /\ nextStatement(locals[n]) # "write"
        /\ locals' = [locals EXCEPT ![n] = selectAnswered(elocal_call_data, @)]
    /\ UNCHANGED <<faults, scheduler, fnArg, fnResult, tz, pc, storeVars, ringbaApi,
                   syncArgs, runVars, summaries, snapshots, opLog>>

\* the UPDATE or INSERT of an insertCallsBatch under way arrives; the batch returns, or
\* rethrows the error of a refused statement (done: it returned)
InsertCallsBatchWrite ==
    /\ pc = "store"
    /\ \E n \in 1..Len(locals) :
        /\ locals[n].op = "insertCallsBatch"
        /\ nextStatement(locals[n]) = "write"
        /\ \E r \in {writeElocalCall(elocal_call_data, locals[n].call,
                                     OrElse(locals[n].duplicateCheck, FALSE),
                                     locals[n].existingCall[1],
                                     OrElse(locals[n].existsWithCorrectedTimestamp, FALSE))} :
            /\ elocal_call_data' = r.table
            /\ opLog' = Append(opLog, [op |-> "insertCallsBatch", arg |-> locals[n].call,
                                       before |-> elocal_call_data, done |-> ~r.thrown])
        /\ locals' = Without(locals, n)
    /\ UNCHANGED <<faults, scheduler, fnArg, fnResult, tz, pc, ringba_original_sync,
                   ringbaApi, syncArgs, runVars, summaries, snapshots>>

\* db.updateOriginalPayout(callId, originalPayout, originalRevenue, ringbaInboundCallId)
UpdateOriginalPayout ==
    /\ pc = "store"
    /\ StartedOps < MaxOps
    /\ \E callId \in 1..(Len(elocal_call_data) + 1), u \in StoreUpdates :
        LET r == updateOriginalPayout(elocal_call_data, callId, u.originalPayout,
                                      u.originalRevenue, Some(u.ringbaInboundCallId))
        IN  /\ elocal_call_data' = r.table
            /\ opLog' = Append(opLog, [op |-> "updateOriginalPayout",
                                       arg |-> [callId |-> callId, u |-> u],
                                       before |-> elocal_call_data,
                                       done |-> r.updated > 0])
    /\ UNCHANGED <<auxVars, tz, pc, ringba_original_sync, ringbaApi, syncArgs, runVars, summaries,
                   snapshots>>

\* db.updateCallWithAdjustment(callId, { elocalPayout })
UpdateCallWithAdjustment ==
    /\ pc = "store"
    /\ StartedOps < MaxOps
    /\ \E callId \in 1..(Len(elocal_call_data) + 1), elocalPayout \in StoreAdjustedPayouts :
        LET r == updateCallWithAdjustment(elocal_call_data, callId, elocalPayout)
        IN  /\ elocal_call_data' = r.table
            /\ opLog' = Append(opLog, [op |-> "updateCallWithAdjustment",
                                       arg |-> [callId |-> callId,
                                                elocalPayout |-> elocalPayout],
                                       before |-> elocal_call_data,
                                       done |-> r.updated > 0])
    /\ UNCHANGED <<auxVars, tz, pc, ringba_original_sync, ringbaApi, syncArgs, runVars, summaries,
                   snapshots>>

\* db.updateRingbaInboundCallId([{ elocalCallId, ringbaInboundCallId }])
UpdateRingbaInboundCallId ==
    /\ pc = "store"
    /\ StartedOps < MaxOps
    /\ \E elocalCallId \in 1..(Len(elocal_call_data) + 1), ringbaInboundCallId \in RingbaIds :
        LET r == updateRingbaInboundCallId(elocal_call_data, elocalCallId,
                                           ringbaInboundCallId)
        IN  /\ elocal_call_data' = r.table
            /\ opLog' = Append(opLog, [op |-> "updateRingbaInboundCallId",
                                       arg |-> [callId |-> elocalCallId,
                                                ringbaInboundCallId |-> ringbaInboundCallId],
                                       before |-> elocal_call_data,
                                       done |-> r.updated > 0])
    /\ UNCHANGED <<auxVars, tz, pc, ringba_original_sync, ringbaApi, syncArgs, runVars, summaries,
                   snapshots>>

\* db.insertRingbaCallsBatch([call]) is called: the SELECT of the call is answered, or
\* throws (thrown) and the call is skipped
InsertRingbaCallsBatch ==
    /\ pc = "store"
    /\ StartedOps < MaxOps
    /\ \E call \in StoreRingbaCalls, thrown \in BOOLEAN :
        IF thrown
        THEN /\ opLog' = Append(opLog, [op |-> "insertRingbaCallsBatch", arg |-> call,
                                        before |-> ringba_original_sync, done |-> FALSE])
             /\ locals' = locals
        ELSE /\ locals' = Append(locals,
                    [Entered("insertRingbaCallsBatch", call) EXCEPT
                        !.existingCall = Some(existsRingbaId(ringba_original_sync,
                                                             call.inboundCallId))])
             /\ opLog' = opLog
    /\ UNCHANGED <<faults, scheduler, fnArg, fnResult, tz, pc, storeVars, ringbaApi,
                   syncArgs, runVars, summaries, snapshots>>

\* the UPDATE or INSERT of an insertRingbaCallsBatch under way arrives; a statement that
\* throws is caught and the call is skipped (done: it was not skipped)
InsertRingbaCallsBatchWrite ==
    /\ pc = "store"
    /\ \E n \in 1..Len(locals), thrown \in BOOLEAN :
        /\ locals[n].op = "insertRingbaCallsBatch"
        /\ \E r \in {IF thrown
                     THEN [table |-> ringba_original_sync, skipped |-> 1]
                     ELSE writeRingbaCall([table |-> ringba_original_sync, inserted |-> 0,
                                           updated |-> 0, skipped |-> 0],
                                          locals[n].call, locals[n].existingCall[1])} :
            /\ ringba_original_sync' = r.table
            /\ opLog' = Append(opLog, [op |-> "insertRingbaCallsBatch",
                                       arg |-> locals[n].call,
                                       before |-> ringba_original_sync,
                                       done |-> r.skipped = 0])
        /\ locals' = Without(locals, n)
    /\ UNCHANGED <<faults, scheduler, fnArg, fnResult, tz, pc, elocal_call_data, ringbaApi,
                   syncArgs, runVars, summaries, snapshots>>

NextStore ==
    \/ InsertCallsBatch
    \/ InsertCallsBatchSelect
    \/ InsertCallsBatchWrite
    \/ UpdateOriginalPayout
    \/ UpdateCallWithAdjustment
    \/ UpdateRingbaInboundCallId
    \/ InsertRingbaCallsBatch
    \/ InsertRingbaCallsBatchWrite

SpecStore == InitStore /\ [][NextStore]_vars

-----------------------------------------------------------------------------
(* The sync run: syncRingbaOriginalPayout, one action per step of the run *)

MaxElocal == 2
MaxRuns == 2

\* fetchAllRingbaCalls, the body of its loop for one target (lines 87-128): the records
\* of the answer as RingbaCallForSync; a failed request (Left or exception) adds nothing
callsOfAnswer(answer, targetId) ==
    IF answer.ok
    THEN [i \in 1..Len(answer.calls) |-> toRingbaCallForSync(answer.calls[i], targetId)]
    ELSE <<>>

\* the position in TARGET_IDS the loop of fetchAllRingbaCalls goes to after the k-th
\* request, wrongly: a failed request ends the loop
nextTarget_StopAtError(k, answer) == IF answer.ok THEN k + 1 ELSE Len(TARGET_IDS) + 1

\* the position in TARGET_IDS the loop of fetchAllRingbaCalls goes to after the k-th
\* request: the next, whether the request failed ("continue", line 94, and the catch,
\* line 132) or was answered
nextTarget(k, answer) == k + 1

\* c.inboundCallId && !seenInboundIds.has(c.inboundCallId), wrongly: without the seen set
isNewInboundId_NoSeen(seenInboundIds, c) == c.inboundCallId # ""

\* c.inboundCallId && !seenInboundIds.has(c.inboundCallId)
isNewInboundId(seenInboundIds, c) ==
    c.inboundCallId # "" /\ c.inboundCallId \notin seenInboundIds

\* the inner loop of step 1 (lines 391-396) over the calls of one day
RECURSIVE addDayCalls(_, _, _)
addDayCalls(acc, dayCalls, i) ==
    IF i > Len(dayCalls) THEN acc
    ELSE
    LET c == dayCalls[i] IN
    addDayCalls(IF isNewInboundId(acc.seenInboundIds, c)
                THEN [seenInboundIds |-> acc.seenInboundIds \cup {c.inboundCallId},
                      allRingbaCalls |-> Append(acc.allRingbaCalls, c)]
                ELSE acc,
                dayCalls, i + 1)

\* the local variables of step 1 when the day loop is entered (lines 383-385), and of
\* fetchAllRingbaCalls when it is entered (line 85): the day d, the position k in
\* TARGET_IDS of the next request, allCalls of the day, seenInboundIds, allRingbaCalls
Step1Locals(range) ==
    [d |-> range.startDay, k |-> 1, allCalls |-> <<>>, seenInboundIds |-> {},
     allRingbaCalls |-> <<>>]

\* step 1 from one await of getCallsByTargetId to the next: the answer of the request of
\* day d and target k is taken into allCalls; after the last target of the day
\* fetchAllRingbaCalls returns, the loop over dayCalls (lines 391-396) runs and d moves on
afterRequest(st, api) ==
    LET targetId == TARGET_IDS[st.k].id
        answer == api[<<st.d, targetId>>]
        allCalls == st.allCalls \o callsOfAnswer(answer, targetId)
        k == nextTarget(st.k, answer)
        acc == addDayCalls([seenInboundIds |-> st.seenInboundIds,
                            allRingbaCalls |-> st.allRingbaCalls], allCalls, 1)
    IN  IF k <= Len(TARGET_IDS)
        THEN [st EXCEPT !.k = k, !.allCalls = allCalls]
        ELSE [d |-> st.d + 1, k |-> 1, allCalls |-> <<>>,
              seenInboundIds |-> acc.seenInboundIds, allRingbaCalls |-> acc.allRingbaCalls]

\* Date.UTC(y, m, day, 5, 0, 0, 0) of the first day of the range
fullRangeStartUTC(range) == At(range.startDay, 5, 0, 0)

\* Date.UTC(y, m, day + 1, 4, 59, 59, 999) of the last day, in whole seconds
fullRangeEndUTC(range) == At(range.endDay + 1, 4, 59, 59)

\* step 5, one iteration of its loop (lines 429-441): the UPDATE on the table as it is
\* when the statement arrives; throws: the statement throws and the catch counts it
applyUpdate(acc, u, throws) ==
    LET result == updateOriginalPayout(acc.table, u.elocalCallId, u.originalPayout,
                                       u.originalRevenue, Some(u.ringbaInboundCallId))
    IN  IF throws THEN [acc EXCEPT !.failedCount = @ + 1]
        ELSE IF result.updated > 0
        THEN [acc EXCEPT !.table = result.table, !.updatedCount = @ + 1]
        ELSE [acc EXCEPT !.table = result.table, !.failedCount = @ + 1]

\* step 5, wrongly: the loop ends at the first UPDATE that was counted as failed
nextUpdate_StopAtFailure(i, last, failed) == IF failed THEN last + 1 ELSE i + 1

\* step 5: the position the loop goes to after the update at position i (line 428)
nextUpdate(i, last, failed) == i + 1

SyncRanges == {[startDay |-> Feb3, endDay |-> Feb3], [startDay |-> Feb3, endDay |-> Feb3 + 1]}

Slots(range) == (range.startDay..range.endDay) \X Range([i \in 1..Len(TARGET_IDS) |-> TARGET_IDS[i].id])

\* the answers of the API: per day and target at most one of the platform's calls
ApiAnswers(range, money) ==
    LET Call(id) == RingbaCallRecord(Some(id), PhoneA, At(Feb3, 17, 0, 0),
                                     money[id].payout, money[id].revenue)
    IN  [Slots(range) -> {[ok |-> TRUE, calls |-> <<>>]}
                          \cup {[ok |-> TRUE, calls |-> <<Call(id)>>] : id \in RingbaIds}]

\* the calls of the eLocal feed, as fetch-elocal-calls hands them to insertCallsBatch
ElocalCalls ==
    [callerId : {PhoneA},
     dateOfCall : {Some(At(Feb3, 17, 5, 30)), Some(At(Feb3, 20, 20, 0))},
     originalDateOfCall : {NULL},
     elocalPayout : {1200},
     category : {"STATIC", "API"},
     ringbaInboundCallId : {NULL},
     ringbaOriginalPayout : {NULL, Some(500)},
     ringbaOriginalRevenue : {NULL}]

\* a store the eLocal fetch has filled and no sync has touched
Init ==
    /\ pc = "idle"
    /\ tz \in ProcessTZ
    /\ syncArgs \in [range : SyncRanges, category : {NULL}]
    /\ \E m1 \in {[payout |-> 0, revenue |-> 0], [payout |-> 700, revenue |-> 900]} :
         ringbaApi \in ApiAnswers(syncArgs.range,
                                  [id \in RingbaIds |->
                                     IF id = "r1" THEN m1
                                     ELSE [payout |-> 700, revenue |-> 900]])
    /\ \E batch \in SeqsUpTo(ElocalCalls, MaxElocal) :
         elocal_call_data = insertCallsBatch(<<>>, batch)
    /\ ringba_original_sync = <<>>
    /\ ringbaCalls = <<>>
    /\ saveResult = NULL
    /\ elocalCalls = <<>>
    /\ prepared = NULL
    /\ summaries = <<>>
    /\ snapshots = <<>>
    /\ opLog = <<>>
    /\ NoAux

\* the number of the run in progress
CurrentRun == Len(summaries) + 1

\* an entry of opLog for a request or statement of the run in progress
Issued(op, a, before) == [op |-> op, arg |-> a, before |-> before, run |-> CurrentRun]

\* the configuration check, wrongly: without the connection string of the database
configurationMissing_CredentialsOnly == faults.accountIdMissing \/ faults.apiTokenMissing

\* !accountId || !apiToken (line 336), and getDatabaseConfig's !connectionString
configurationMissing ==
    faults.accountIdMissing \/ faults.apiTokenMissing \/ faults.databaseUrlMissing

\* the run throws before step 1: credentials (lines 334-338) or createNeonDbOps (line 339)
StartThrows ==
    /\ pc = "idle"
    /\ Len(summaries) < MaxRuns
    /\ configurationMissing
    /\ pc' = "aborted"
    /\ UNCHANGED <<auxVars, tz, storeVars, ringbaApi, syncArgs, runVars, summaries, snapshots,
                   opLog>>

\* step 1, one request: the run is at the await of one getCallsByTargetId (line 89) and
\* the request is answered.  The first request follows the configuration check; after the
\* last request of the last day the deduplicated list is ringbaCalls and step 2 begins.
\* Between two requests the run is suspended and other callers of the store may run.
Step1Fetch ==
    /\ \/ pc = "idle" /\ Len(summaries) < MaxRuns /\ ~configurationMissing
       \/ pc = "step1"
    /\ \E st \in {IF pc = "idle" THEN Step1Locals(syncArgs.range) ELSE locals[1]} :
         /\ opLog' = Append(opLog, Issued("getCallsByTargetId",
                                          <<st.d, TARGET_IDS[st.k].id>>, <<>>))
         /\ \E after \in {afterRequest(st, ringbaApi)} :
              IF after.d > syncArgs.range.endDay
              THEN /\ ringbaCalls' = after.allRingbaCalls
                   /\ locals' = NULL
                   /\ pc' = "step2"
              ELSE /\ ringbaCalls' = <<>>
                   /\ locals' = Some(after)
                   /\ pc' = "step1"
    /\ saveResult' = NULL
    /\ elocalCalls' = <<>>
    /\ prepared' = NULL
    /\ UNCHANGED <<faults, scheduler, fnArg, fnResult, tz, storeVars, ringbaApi, syncArgs,
                   summaries, snapshots>>

\* the list step 2 hands to insertRingbaCallsBatch (line 402)
callsToSave(calls) == calls

\* the local variables of insertRingbaCallsBatch where the run is: the position i of the
\* call in the list, the answer of its SELECT once it has come (existing.length > 0), and
\* the three counts, which are zero before the loop (lines 530-532)
Saving ==
    IF locals = NULL
    THEN [i |-> 1, existing |-> NULL, inserted |-> 0, updated |-> 0, skipped |-> 0]
    ELSE locals[1]

\* insertRingbaCallsBatch after a statement of the call at position st.i - 1: the loop
\* goes to the next call, or the function returns { inserted, updated, skipped }
SaveGoesOn(st, calls) ==
    IF st.i > Len(calls)
    THEN /\ saveResult' = Some([inserted |-> st.inserted, updated |-> st.updated,
                                skipped |-> st.skipped])
         /\ locals' = NULL
         /\ pc' = "step3"
    ELSE /\ saveResult' = saveResult
         /\ locals' = Some(st)
         /\ pc' = "step2"

\* the catch of insertRingbaCallsBatch (lines 574-577): console.warn names the call whose
\* statement threw
Warned(call, table) == Issued("console.warn", call.inboundCallId, table)

\* step 2 for an empty list: insertRingbaCallsBatch returns at once (lines 527-529) and
\* issues no statement
Step2Save ==
    /\ pc = "step2"
    /\ callsToSave(ringbaCalls) = <<>>
    /\ saveResult' = Some([inserted |-> 0, updated |-> 0, skipped |-> 0])
    /\ pc' = "step3"
    /\ UNCHANGED <<auxVars, tz, storeVars, ringbaApi, syncArgs, ringbaCalls, elocalCalls,
                   prepared, summaries, snapshots, opLog>>

\* step 2, the SELECT of one call (lines 535-537) is answered: the run learns whether a
\* row with the ringba_id exists; when the statement throws the call is skipped.  For a
\* call whose saving fails, the statement that throws is this one or the write after it.
\* The first SELECT is where insertRingbaCallsBatch is entered.
Step2Select ==
    /\ pc = "step2"
    /\ callsToSave(ringbaCalls) # <<>>
    /\ Saving.existing = NULL
    /\ \E calls \in {callsToSave(ringbaCalls)}, st \in {Saving} :
       \E thrown \in {b \in BOOLEAN : b => st.i \in faults.saveThrows} :
         /\ opLog' = (IF locals = NULL
                      THEN Append(opLog, Issued("insertRingbaCallsBatch", calls,
                                                ringba_original_sync))
                      ELSE opLog)
                     \o (IF thrown
                         THEN <<Warned(calls[st.i], ringba_original_sync)>>
                         ELSE <<>>)
         /\ IF thrown
            THEN SaveGoesOn([st EXCEPT !.i = @ + 1, !.skipped = @ + 1], calls)
            ELSE SaveGoesOn([st EXCEPT !.existing =
                                Some(existsRingbaId(ringba_original_sync,
                                                    calls[st.i].inboundCallId))], calls)
    /\ UNCHANGED <<faults, scheduler, fnArg, fnResult, tz, storeVars, ringbaApi, syncArgs,
                   ringbaCalls, elocalCalls, prepared, summaries, snapshots>>

\* step 2, the UPDATE (lines 539-553) or INSERT (lines 556-572) of one call is carried out
\* on the table as it is by now; when the statement throws, the table stays as it is and
\* the call is skipped
Step2Write ==
    /\ pc = "step2"
    /\ locals # NULL
    /\ locals[1].existing # NULL
    /\ \E calls \in {callsToSave(ringbaCalls)}, st \in {locals[1]} :
       \E r \in {IF st.i \in faults.saveThrows
                  THEN [table |-> ringba_original_sync, inserted |-> st.inserted,
                        updated |-> st.updated, skipped |-> st.skipped + 1]
                  ELSE writeRingbaCall([table |-> ringba_original_sync,
                                        inserted |-> st.inserted, updated |-> st.updated,
                                        skipped |-> st.skipped],
                                       calls[st.i], st.existing[1])} :
         /\ ringba_original_sync' = r.table
         /\ opLog' = IF r.skipped > st.skipped
                     THEN Append(opLog, Warned(calls[st.i], ringba_original_sync))
                     ELSE opLog
         /\ SaveGoesOn([i |-> st.i + 1, existing |-> NULL, inserted |-> r.inserted,
                        updated |-> r.updated, skipped |-> r.skipped], calls)
    /\ UNCHANGED <<faults, scheduler, fnArg, fnResult, tz, elocal_call_data, ringbaApi,
                   syncArgs, ringbaCalls, elocalCalls, prepared, summaries, snapshots>>

\* step 3: read the target rows of the range
Step3FetchElocal ==
    /\ pc = "step3"
    /\ ~faults.readThrows
    /\ elocalCalls' \in getCallsForDateRange(elocal_call_data,
                                             fullRangeStartUTC(syncArgs.range),
                                             fullRangeEndUTC(syncArgs.range),
                                             syncArgs.category)
    /\ opLog' = Append(opLog, Issued("getCallsForDateRange", syncArgs.range, elocal_call_data))
    /\ pc' = "step4"
    /\ UNCHANGED <<auxVars, tz, storeVars, ringbaApi, syncArgs, ringbaCalls, saveResult, prepared,
                   summaries, snapshots>>

\* step 3 when the query fails: getCallsForDateRange rethrows and the run ends with the
\* error
Step3Throws ==
    /\ pc = "step3"
    /\ faults.readThrows
    /\ opLog' = Append(opLog, Issued("getCallsForDateRange", syncArgs.range, elocal_call_data))
    /\ pc' = "aborted"
    /\ UNCHANGED <<auxVars, tz, storeVars, ringbaApi, syncArgs, runVars, summaries, snapshots>>

\* step 4: match, unless one of the two lists is empty; an error of the matcher ends the
\* run
Step4Match ==
    /\ pc = "step4"
    /\ \E result \in {IF Len(elocalCalls) > 0 /\ Len(ringbaCalls) > 0
                       THEN matchAndPrepareUpdates(ringbaCalls, elocalCalls)
                       ELSE [updates |-> <<>>, unmatched |-> 0, skipped |-> 0]} :
            IF Throws(result)
            THEN prepared' = prepared /\ pc' = "aborted"
            ELSE prepared' = Some(result) /\ pc' = "step5"
    /\ UNCHANGED <<auxVars, tz, storeVars, ringbaApi, syncArgs, ringbaCalls, saveResult, elocalCalls,
                   summaries, snapshots, opLog>>

\* the RingbaOriginalSyncSummary (lines 446-459)
Summary(updatedCount, failedCount) ==
    [ringbaCalls |-> Len(ringbaCalls),
     inserted |-> saveResult[1].inserted,
     updated |-> saveResult[1].updated,
     skipped |-> saveResult[1].skipped,
     elocalCalls |-> Len(elocalCalls),
     matched |-> updatedCount,
     updatedOriginal |-> updatedCount,
     failed |-> failedCount,
     unmatched |-> prepared[1].unmatched,
     skippedPreserved |-> prepared[1].skipped]

\* the local variables of step 5 where the run is: the position i in updates and the
\* two counts (zero before the loop), and the target table as it was when step 5 began
Updating ==
    IF locals = NULL
    THEN [i |-> 1, updatedCount |-> 0, failedCount |-> 0, before |-> elocal_call_data]
    ELSE locals[1]

\* step 5: one UPDATE of the loop over updates is carried out (none when the list is
\* empty); after the last one the run returns its summary
Step5Update ==
    /\ pc = "step5"
    /\ \E updates \in {prepared[1].updates}, st \in {Updating} :
       \E r \in {IF updates = <<>>
                 THEN [table |-> elocal_call_data, updatedCount |-> 0, failedCount |-> 0]
                 ELSE applyUpdate([table |-> elocal_call_data,
                                   updatedCount |-> st.updatedCount,
                                   failedCount |-> st.failedCount],
                                  updates[st.i], st.i \in faults.updateThrows)} :
         /\ elocal_call_data' = r.table
         /\ opLog' = IF updates = <<>> THEN opLog
                     ELSE Append(opLog, Issued("updateOriginalPayout", updates[st.i],
                                               elocal_call_data))
         /\ IF nextUpdate(st.i, Len(updates), r.failedCount > st.failedCount) > Len(updates)
            THEN /\ summaries' = Append(summaries, Summary(r.updatedCount, r.failedCount))
                 /\ snapshots' = Append(snapshots,
                                        [before |-> st.before,
                                         elocal_call_data |-> r.table,
                                         ringba_original_sync |-> ringba_original_sync,
                                         updates |-> updates])
                 /\ locals' = NULL
                 /\ pc' = "idle"
            ELSE /\ locals' = Some([i |-> st.i + 1, updatedCount |-> r.updatedCount,
                                    failedCount |-> r.failedCount, before |-> st.before])
                 /\ UNCHANGED <<summaries, snapshots, pc>>
    /\ UNCHANGED <<faults, scheduler, fnArg, fnResult, tz, ringba_original_sync, ringbaApi,
                   syncArgs, ringbaCalls, saveResult, elocalCalls, prepared>>

Next ==
    \/ Step1Fetch
    \/ Step2Save
    \/ Step2Select
    \/ Step2Write
    \/ Step3FetchElocal
    \/ Step4Match
    \/ Step5Update

Spec == Init /\ [][Next]_vars

-----------------------------------------------------------------------------
(* The sync run in an environment that fails: requests that fail, statements that throw, *)
(* configuration that is missing, origin records without caller                          *)

\* the calls the Ringba platform holds: r1 and r3 of one caller, r2 without caller id
RunRingbaRecords ==
    {RingbaCallRecord(Some("r1"), PhoneA, At(Feb3, 17, 0, 0), 700, 900),
     RingbaCallRecord(Some("r2"), <<>>, At(Feb3, 17, 0, 0), 700, 900),
     RingbaCallRecord(Some("r3"), PhoneA, At(Feb3, 17, 2, 0), 300, 400)}

\* the answers of the API: a failed request (Left or exception), no call, or one call
RunApiAnswers(range) ==
    [Slots(range) -> {[ok |-> FALSE, calls |-> <<>>], [ok |-> TRUE, calls |-> <<>>]}
                      \cup {[ok |-> TRUE, calls |-> <<c>>] : c \in RunRingbaRecords}]

\* the calls the eLocal fetch has saved
RunElocalCalls ==
    [callerId : {PhoneA},
     dateOfCall : {Some(At(Feb3, 17, 5, 30)), Some(At(Feb3, 17, 10, 0))},
     originalDateOfCall : {NULL},
     elocalPayout : {1200},
     category : {"STATIC"},
     ringbaInboundCallId : {NULL},
     ringbaOriginalPayout : {NULL},
     ringbaOriginalRevenue : {NULL}]

\* the environments of a run
RunFaults ==
    {NoFaults,
     [NoFaults EXCEPT !.accountIdMissing = TRUE],
     [NoFaults EXCEPT !.apiTokenMissing = TRUE],
     [NoFaults EXCEPT !.databaseUrlMissing = TRUE],
     [NoFaults EXCEPT !.readThrows = TRUE],
     [NoFaults EXCEPT !.saveThrows = {1}],
     [NoFaults EXCEPT !.updateThrows = {1}],
     [NoFaults EXCEPT !.saveThrows = {1}, !.updateThrows = {1}]}

InitRun ==
    /\ pc = "idle"
    /\ tz = 0
    /\ syncArgs \in [range : SyncRanges, category : {NULL}]
    /\ ringbaApi \in RunApiAnswers(syncArgs.range)
    /\ \E batch \in SeqsUpTo(RunElocalCalls, MaxElocal) :
         elocal_call_data = insertCallsBatch(<<>>, batch)
    /\ ringba_original_sync = <<>>
    /\ ringbaCalls = <<>>
    /\ saveResult = NULL
    /\ elocalCalls = <<>>
    /\ prepared = NULL
    /\ summaries = <<>>
    /\ snapshots = <<>>
    /\ opLog = <<>>
    /\ faults \in RunFaults
    /\ scheduler = NewScheduler
    /\ locals = NULL
    /\ fnArg = NULL
    /\ fnResult = NULL

NextRun == Next \/ StartThrows \/ Step3Throws

SpecRun == InitRun /\ [][NextRun]_vars

-----------------------------------------------------------------------------
(* The sync run beside another caller of insertRingbaCallsBatch.  A second run of the  *)
(* sync (started by the scheduler while an execution is in progress, or from the      *)
(* command line) saves its own list; its statements on ringba_original_sync arrive    *)
(* while the run is suspended at an await.  Steps 3 to 5 of the run read and write   *)
(* elocal_call_data only, which these statements do not touch.                       *)

MaxOther == 1

\* the calls the other caller saves: r1 as an earlier answer of the API reported it, and r3
OtherRingbaCalls ==
    {toRingbaCallForSync(RingbaCallRecord(Some("r1"), PhoneA, At(Feb3, 13, 0, 0), 300, 400),
                         TargetApi),
     toRingbaCallForSync(RingbaCallRecord(Some("r3"), PhoneA, At(Feb3, 17, 2, 0), 300, 400),
                         TargetStatic)}

\* the statements of other callers that have arrived
OtherWrites == {k \in 1..Len(opLog) : opLog[k].run = 0}

\* the UPDATE or INSERT of one call by the other caller arrives; existing is what the
\* other caller's SELECT had found
OtherCallerWrites ==
    /\ Cardinality(OtherWrites) < MaxOther
    /\ \E call \in OtherRingbaCalls, existing \in BOOLEAN :
       \E r \in {writeRingbaCall([table |-> ringba_original_sync, inserted |-> 0,
                                   updated |-> 0, skipped |-> 0], call, existing)} :
         /\ ringba_original_sync' = r.table
         /\ opLog' = Append(opLog, [op |-> "insertRingbaCallsBatch", arg |-> <<call>>,
                                    before |-> ringba_original_sync, run |-> 0])
    /\ UNCHANGED <<auxVars, tz, pc, elocal_call_data, ringbaApi, syncArgs, runVars,
                   summaries, snapshots>>

\* the environments of a run beside another caller: nothing fails, or the first statement
\* of either batch throws
SharedFaults == {NoFaults, [NoFaults EXCEPT !.saveThrows = {1}, !.updateThrows = {1}]}

\* the answers of the API for a day: the static target reports no call, r1, or r1 and r3;
\* the request for the api target fails, or reports no call or r2
SharedApiAnswers(range) ==
    LET Record(id) == CHOOSE c \in RunRingbaRecords : c.inboundCallId = Some(id)
        Answers(targetId) ==
            IF targetId = TargetStatic
            THEN {[ok |-> TRUE, calls |-> calls] :
                    calls \in {<<>>, <<Record("r1")>>, <<Record("r1"), Record("r3")>>}}
            ELSE {[ok |-> FALSE, calls |-> <<>>], [ok |-> TRUE, calls |-> <<>>],
                  [ok |-> TRUE, calls |-> <<Record("r2")>>]}
    IN  {api \in [Slots(range) -> UNION {Answers(id) : id \in {TargetStatic, TargetApi}}] :
            \A slot \in Slots(range) : api[slot] \in Answers(slot[2])}

InitShared ==
    /\ pc = "idle"
    /\ tz = 0
    /\ syncArgs = [range |-> [startDay |-> Feb3, endDay |-> Feb3], category |-> NULL]
    /\ ringbaApi \in SharedApiAnswers(syncArgs.range)
    /\ \E batch \in SeqsUpTo(RunElocalCalls, MaxElocal) :
         elocal_call_data = insertCallsBatch(<<>>, batch)
    /\ ringba_original_sync = <<>>
    /\ ringbaCalls = <<>>
    /\ saveResult = NULL
    /\ elocalCalls = <<>>
    /\ prepared = NULL
    /\ summaries = <<>>
    /\ snapshots = <<>>
    /\ opLog = <<>>
    /\ faults \in SharedFaults
    /\ scheduler = NewScheduler
    /\ locals = NULL
    /\ fnArg = NULL
    /\ fnResult = NULL

NextShared == Next \/ OtherCallerWrites

SpecShared == InitShared /\ [][NextShared]_vars

-----------------------------------------------------------------------------
(* The matcher on the rows of a stored day: candidates that differ in score *)

\* the calls of one caller the eLocal fetch has saved: two within one minute, others
\* three and ten minutes later; payouts none, 12.00, 12.03 and 15.00
ScoreElocalCalls ==
    [callerId : {PhoneA},
     dateOfCall : {Some(At(Feb3, 17, 0, 10)), Some(At(Feb3, 17, 0, 30)),
                   Some(At(Feb3, 17, 3, 0)), Some(At(Feb3, 17, 10, 0))},
     originalDateOfCall : {NULL},
     elocalPayout : {0, 1200, 1203, 1500},
     category : {"STATIC"},
     ringbaInboundCallId : {NULL},
     ringbaOriginalPayout : {NULL},
     ringbaOriginalRevenue : {NULL}]

ScoreOriginTimes == {At(Feb3, 17, 0, 0), At(Feb3, 17, 5, 0)}

\* the origin list of a run and the target rows getCallsForDateRange returns for the day
InitScore ==
    /\ pc = "match"
    /\ \E zone \in ProcessTZ,
          f \in SeqsUpTo(OriginAttrs({PhoneA}, {TargetStatic}, ScoreOriginTimes, {0, 1200}),
                         MaxOrigin) \ {<<>>},
          batch \in SeqsUpTo(ScoreElocalCalls, MaxTarget) :
            \E rows \in getCallsForDateRange(
                            insertCallsBatch(<<>>, batch),
                            fullRangeStartUTC([startDay |-> Feb3, endDay |-> Feb3]),
                            fullRangeEndUTC([startDay |-> Feb3, endDay |-> Feb3]),
                            NULL) :
                Idle(zone, OriginList(f), rows)

SpecScore == InitScore /\ [][NextMatch]_vars

-----------------------------------------------------------------------------
(* The sequential scheduler (sequential-scheduler.service.ts)                *)
(* An execution is one call of executeSchedule: the schedule, the index of   *)
(* the enabled service it is at, whether it is awaiting that service or the  *)
(* two-second delay after it, and its counts.  While an execution awaits a   *)
(* service, the service goes on by one step per statement on the two tables; *)
(* its requests to the feed or the platform, which touch no table, are one   *)
(* step.                                                                     *)
(* A cron task is named by its schedule and the number of the start() that   *)
(* created it; tasks that are stopped and no longer in the map are dropped.  *)

MaxTriggers == 2

\* how many times start() gets as far as creating tasks
MaxStarts == 2

\* how many services the executions of a process call in all
MaxServiceCalls == 3

\* an enabled service of the configuration; category null means all categories
Service(name, type, category) ==
    [name |-> name, type |-> type, category |-> category, enabled |-> TRUE]

\* DEFAULT_SCHEDULER_CONFIG.schedules: name, time of day, enabled and the services (name,
\* type, category, enabled), in the order of the configuration
DEFAULT_SCHEDULER_CONFIG ==
    << [name |-> "Early Morning Data Collection", time |-> "00:00", enabled |-> TRUE,
        services |-> << Service("Fetch eLocal Current Day - STATIC", "elocal-fetch",
                                Some("STATIC")),
                        Service("Fetch eLocal Current Day - API", "elocal-fetch",
                                Some("API")) >>],
       [name |-> "Ringba Original Sync", time |-> "03:04", enabled |-> TRUE,
        services |-> << Service("Ringba Original Sync - Past 10 Days",
                                "ringba-original-sync", NULL) >>],
       [name |-> "Morning Cost Sync", time |-> "06:10", enabled |-> TRUE,
        services |-> << Service("Ringba Cost Sync - Current Day", "ringba-cost-sync",
                                NULL) >>],
       [name |-> "Evening Data Collection & Sync", time |-> "21:00", enabled |-> TRUE,
        services |-> << Service("Fetch eLocal Current Day - STATIC", "elocal-fetch",
                                Some("STATIC")),
                        Service("Fetch eLocal Current Day - API", "elocal-fetch",
                                Some("API")),
                        Service("Ringba Original Sync - Past 10 Days",
                                "ringba-original-sync", NULL),
                        Service("Ringba Cost Sync - Past 15 Days", "ringba-cost-sync",
                                NULL) >>],
       [name |-> "Historical Data Collection", time |-> "23:58", enabled |-> TRUE,
        services |-> << Service("Fetch eLocal Historical - STATIC", "elocal-fetch",
                                Some("STATIC")),
                        Service("Fetch eLocal Historical - API", "elocal-fetch",
                                Some("API")) >>] >>

\* new SequentialScheduler(config) in an environment where the required variables are
\* set or not
SchedulerFor(config, missingVars) ==
    [NewScheduler EXCEPT !.config = config, !.missingVars = missingVars]

ScheduleIds == 1..Len(scheduler.config)

\* this.config.schedules.filter(s => s.enabled)
enabledSchedules == {k \in ScheduleIds : scheduler.config[k].enabled}

\* schedule.services with no filter
allServices_Unfiltered(k) == scheduler.config[k].services

\* schedule.services.filter(s => s.enabled)
enabledServices(k) == SelectSeq(scheduler.config[k].services, LAMBDA s : s.enabled)

\* the configuration lists the schedules by time of day: after the last comes the first
\* of the next day
scheduleAfter(k) == IF k = Len(scheduler.config) THEN 1 ELSE k + 1

\* scheduleJob: the statistics of a schedule start at zero
newJobStats == [totalRuns |-> 0, successfulRuns |-> 0, failedRuns |-> 0]

\* success of a schedule result, whatever failed
scheduleSuccess_Always(failureCount) == TRUE

\* success: failureCount === 0
scheduleSuccess(failureCount) == failureCount = 0

\* the value executeSchedule returns
scheduleResult(k, serviceResults, successCount, failureCount) ==
    [success |-> scheduleSuccess(failureCount), scheduleName |-> scheduler.config[k].name,
     serviceResults |-> serviceResults, successCount |-> successCount,
     failureCount |-> failureCount]

\* the service an execution awaits, as executeService calls it: where the service
\* stands, the calls of the platform it has fetched, the gateway call whose statements
\* are under way, and the updates it has prepared
newServiceRun == [stage |-> "called", calls |-> <<>>, pending |-> NULL, updates |-> <<>>]

\* executeSchedule up to its first await: the first enabled service is called, or the
\* result is returned when no service is enabled. statsInMap says that the statistics
\* object the cron callback holds is the one in jobStats.
startExecution(k, caller) ==
    LET none == enabledServices(k) = <<>> IN
    [schedule |-> k, i |-> 1,
     service |-> IF none THEN NULL ELSE Some(enabledServices(k)[1]),
     phase |-> IF none THEN "done" ELSE "service",
     serviceResults |-> <<>>, successCount |-> 0, failureCount |-> 0,
     result |-> IF none THEN Some(scheduleResult(k, <<>>, 0, 0)) ELSE NULL,
     statsInMap |-> caller = "cron", run |-> newServiceRun]

\* the services being executed (an executeService awaiting its service)
executingServices ==
    {n \in 1..Len(scheduler.executions) : scheduler.executions[n].phase = "service"}

\* how many services the first n executions have called so far
RECURSIVE servicesCalled(_)
servicesCalled(n) ==
    IF n = 0 THEN 0
    ELSE servicesCalled(n - 1)
            + (IF scheduler.executions[n].phase = "done"
               THEN Len(scheduler.executions[n].serviceResults)
               ELSE scheduler.executions[n].i)

\* an execution may call a service more
callsLeft == servicesCalled(Len(scheduler.executions)) < MaxServiceCalls

\* the cron tasks that were started and not stopped
activeTasks(k) == {t \in scheduler.running : t[1] = k}

\* start() up to its await: nothing happens when the scheduler is running, otherwise
\* initialize() is called and awaited
StartCalled ==
    /\ scheduler.created + scheduler.starting < MaxStarts
    /\ scheduler' = IF scheduler.isRunning THEN scheduler
                    ELSE [scheduler EXCEPT !.starting = @ + 1]
    /\ UNCHANGED <<tz, pc, elocal_call_data, ringba_original_sync, ringbaApi, syncArgs,
                   runVars, summaries, snapshots, opLog, faults, locals, fnArg, fnResult>>

\* initialize() has found a required environment variable missing: start() rejects
InitializeThrows ==
    /\ scheduler.starting > 0
    /\ scheduler.missingVars
    /\ scheduler' = [scheduler EXCEPT !.starting = @ - 1]
    /\ UNCHANGED <<tz, pc, elocal_call_data, ringba_original_sync, ringbaApi, syncArgs,
                   runVars, summaries, snapshots, opLog, faults, locals, fnArg, fnResult>>

\* start() after initialize(): scheduleJob for every enabled schedule (new statistics and
\* a new task in the maps), task.start() for the tasks of the map, isRunning = true. The
\* scheduler may be started at any time of day.
StartContinues ==
    /\ scheduler.starting > 0
    /\ ~scheduler.missingVars
    /\ \E first \in ScheduleIds :
         /\ scheduler.running # {} => first = scheduler.nextCron
         /\ LET task == scheduler.created + 1 IN
            scheduler' = [scheduler EXCEPT
                          !.starting = @ - 1,
                          !.created = task,
                          !.isRunning = TRUE,
                          !.jobStats = [k \in enabledSchedules |-> newJobStats],
                          !.tasks = [k \in enabledSchedules |-> task],
                          !.running = @ \cup {<<k, task>> : k \in enabledSchedules},
                          !.executions = [n \in DOMAIN @ |-> [@[n] EXCEPT !.statsInMap = FALSE]],
                          !.nextCron = first]
    /\ UNCHANGED <<tz, pc, elocal_call_data, ringba_original_sync, ringbaApi, syncArgs,
                   runVars, summaries, snapshots, opLog, faults, locals, fnArg, fnResult>>

\* stop(): task.stop() for every task of the map; what is executing goes on
Stop ==
    /\ scheduler.isRunning
    /\ scheduler' = [scheduler EXCEPT
                        !.isRunning = FALSE,
                        !.running = @ \ {<<k, scheduler.tasks[k]>> : k \in DOMAIN scheduler.tasks}]
    /\ UNCHANGED <<tz, pc, elocal_call_data, ringba_original_sync, ringbaApi, syncArgs,
                   runVars, summaries, snapshots, opLog, faults, locals, fnArg, fnResult>>

\* the statistics after the cron callback of schedule k has run up to its first await:
\* totalRuns is counted, and with no enabled service executeSchedule has returned
afterCallback(stats, k) ==
    [stats EXCEPT ![k].totalRuns = @ + 1,
                  ![k].successfulRuns = IF enabledServices(k) = <<>> THEN @ + 1 ELSE @]

\* the active tasks of the schedule whose time has come whose callback has not run yet
tasksToFire == activeTasks(scheduler.nextCron) \ scheduler.fired

\* the time of the next schedule has come: the callback of one active task of that
\* schedule runs; when no task of the schedule is left to fire, the time of the schedule
\* after it is next. Timers fire when no start() is waiting to continue.
CronTrigger ==
    /\ scheduler.starting = 0
    /\ scheduler.running # {}
    /\ \E k \in {scheduler.nextCron} :
         IF tasksToFire = {}
         THEN scheduler' = [scheduler EXCEPT !.nextCron = scheduleAfter(k), !.fired = {}]
         ELSE /\ Len(scheduler.executions) < MaxTriggers
              /\ enabledServices(k) # <<>> => callsLeft
              /\ \E task \in tasksToFire :
                   scheduler' = [scheduler EXCEPT
                      !.jobStats = afterCallback(@, k),
                      !.executions = Append(@, startExecution(k, "cron")),
                      !.nextCron = IF tasksToFire = {task} THEN scheduleAfter(k) ELSE @,
                      !.fired = IF tasksToFire = {task} THEN {} ELSE @ \cup {task}]
    /\ UNCHANGED <<tz, pc, elocal_call_data, ringba_original_sync, ringbaApi, syncArgs,
                   runVars, summaries, snapshots, opLog, faults, locals, fnArg, fnResult>>

\* runScheduleNow(scheduleName) for an enabled schedule of the configuration (it throws
\* for any other name)
RunScheduleNow ==
    /\ Len(scheduler.executions) < MaxTriggers
    /\ \E k \in enabledSchedules :
         /\ enabledServices(k) # <<>> => callsLeft
         /\ scheduler' = [scheduler EXCEPT
                            !.executions = Append(@, startExecution(k, "runScheduleNow"))]
    /\ UNCHANGED <<tz, pc, elocal_call_data, ringba_original_sync, ringbaApi, syncArgs,
                   runVars, summaries, snapshots, opLog, faults, locals, fnArg, fnResult>>

\* the statistics after executeSchedule has returned to the cron callback
finishedStats(stats, x) ==
    IF ~x.statsInMap THEN stats
    ELSE IF x.result[1].success
         THEN [stats EXCEPT ![x.schedule].successfulRuns = @ + 1]
         ELSE [stats EXCEPT ![x.schedule].failedRuns = @ + 1]

\* the call of the eLocal feed for a category, as scrapeElocalDataWithDateRange hands
\* it to insertCallsBatch (category: category), and the call of the Ringba platform
ServiceElocalCall(category) ==
    [callerId |-> PhoneA, dateOfCall |-> Some(At(Feb3, 17, 5, 30)),
     originalDateOfCall |-> NULL, elocalPayout |-> 1200, category |-> category,
     ringbaInboundCallId |-> NULL, ringbaOriginalPayout |-> NULL,
     ringbaOriginalRevenue |-> NULL]

ServiceRingbaCall ==
    toRingbaCallForSync(RingbaCallRecord(Some("r1"), PhoneA, At(Feb3, 17, 0, 0), 700, 900),
                        TargetStatic)

\* the date range of a service: the day of the calls
ServiceRange == [startDay |-> Feb3, endDay |-> Feb3]

\* what the feed or the platform answers to the requests of a service: an error that
\* ends the service, no call, or the call
ServiceAnswers == {"throws", "nothing", "call"}

\* a service after its requests to the feed or the platform were answered, before its
\* first statement.  The eLocal fetch (lines 546-725) throws when the request fails,
\* saves the calls of the feed with the category of the service, and has nothing to save
\* when the feed is empty.  The original sync throws when its configuration is missing;
\* a failed request is skipped, so that it goes on with the calls it has, if any, to the
\* mirror upsert, and with none to the read of the target dataset.  The cost sync
\* throws, has nothing to do, or goes on to link a target row.
serviceCalled(service, answer) ==
    IF answer = "throws" THEN [newServiceRun EXCEPT !.stage = "thrown"]
    ELSE IF service.type = "elocal-fetch"
    THEN IF answer = "nothing" THEN [newServiceRun EXCEPT !.stage = "finished"]
         ELSE [newServiceRun EXCEPT
                 !.stage = "statements",
                 !.pending = Some(Entered("insertCallsBatch",
                                          ServiceElocalCall(OrElse(service.category,
                                                                   "STATIC"))))]
    ELSE IF service.type = "ringba-original-sync"
    THEN IF answer = "nothing" THEN [newServiceRun EXCEPT !.stage = "saved"]
         ELSE [newServiceRun EXCEPT
                 !.stage = "statements",
                 !.calls = <<ServiceRingbaCall>>,
                 !.pending = Some(Entered("insertRingbaCallsBatch", ServiceRingbaCall))]
    ELSE IF answer = "nothing" THEN [newServiceRun EXCEPT !.stage = "finished"]
         ELSE [newServiceRun EXCEPT !.stage = "updating"]

\* the requests of a service that an execution awaits are answered
ServiceRequest ==
    /\ \E n \in executingServices, answer \in ServiceAnswers :
         /\ scheduler.executions[n].run.stage = "called"
         /\ scheduler' = [scheduler EXCEPT
                            !.executions[n].run =
                                serviceCalled(scheduler.executions[n].service[1], answer)]
    /\ UNCHANGED <<tz, pc, elocal_call_data, ringba_original_sync, ringbaApi, syncArgs,
                   runVars, summaries, snapshots, opLog, faults, locals, fnArg, fnResult>>

\* the gateway call of a service stands before a SELECT
beforeSelect(run) ==
    /\ run.stage = "statements"
    /\ IF run.pending[1].op = "insertCallsBatch"
       THEN nextStatement(run.pending[1]) # "write"
       ELSE run.pending[1].existingCall = NULL

\* a service after a SELECT of its gateway call was answered from the tables as they
\* are, or threw: insertCallsBatch rethrows, insertRingbaCallsBatch skips the call
afterSelect(run, thrown) ==
    IF run.pending[1].op = "insertCallsBatch"
    THEN IF thrown THEN [newServiceRun EXCEPT !.stage = "thrown"]
         ELSE [run EXCEPT !.pending = Some(selectAnswered(elocal_call_data, @[1]))]
    ELSE IF thrown THEN [run EXCEPT !.stage = "saved", !.pending = NULL]
         ELSE [run EXCEPT !.pending =
                   Some([@[1] EXCEPT !.existingCall =
                           Some(existsRingbaId(ringba_original_sync,
                                               run.pending[1].call.inboundCallId))])]

\* a SELECT of the gateway call of a service that an execution awaits arrives
ServiceSelect ==
    /\ \E n \in executingServices, thrown \in BOOLEAN :
         /\ beforeSelect(scheduler.executions[n].run)
         /\ scheduler' = [scheduler EXCEPT
                            !.executions[n].run = afterSelect(@, thrown)]
    /\ UNCHANGED <<tz, pc, elocal_call_data, ringba_original_sync, ringbaApi, syncArgs,
                   runVars, summaries, snapshots, opLog, faults, locals, fnArg, fnResult>>

\* the UPDATE or INSERT of the gateway call of a service on the tables as they are when
\* it arrives: the two tables after it and where the service stands then.  thrown: the
\* statement throws for a reason of its own.  insertCallsBatch rethrows the error of a
\* statement and the fetch ends with it; insertRingbaCallsBatch catches it, skips the
\* call and the sync goes on.
serviceWrite(p, thrown) ==
    IF p.op = "insertCallsBatch"
    THEN LET r == writeElocalCall(elocal_call_data, p.call, OrElse(p.duplicateCheck, FALSE),
                                  p.existingCall[1],
                                  OrElse(p.existsWithCorrectedTimestamp, FALSE))
         IN  IF thrown \/ r.thrown
             THEN [elocal |-> elocal_call_data, mirror |-> ringba_original_sync,
                   stage |-> "thrown"]
             ELSE [elocal |-> r.table, mirror |-> ringba_original_sync,
                   stage |-> "finished"]
    ELSE [elocal |-> elocal_call_data,
          mirror |-> IF thrown THEN ringba_original_sync
                     ELSE writeRingbaCall([table |-> ringba_original_sync, inserted |-> 0,
                                           updated |-> 0, skipped |-> 0],
                                          p.call, p.existingCall[1]).table,
          stage |-> "saved"]

\* the UPDATE or INSERT of the gateway call of a service that an execution awaits
\* arrives
ServiceWrite ==
    /\ \E n \in executingServices, thrown \in BOOLEAN :
         /\ scheduler.executions[n].run.stage = "statements"
         /\ ~beforeSelect(scheduler.executions[n].run)
         /\ \E r \in {serviceWrite(scheduler.executions[n].run.pending[1], thrown)} :
              /\ elocal_call_data' = r.elocal
              /\ ringba_original_sync' = r.mirror
              /\ scheduler' = [scheduler EXCEPT
                                 !.executions[n].run.pending = NULL,
                                 !.executions[n].run.stage = r.stage]
    /\ UNCHANGED <<tz, pc, ringbaApi, syncArgs, runVars, summaries, snapshots, opLog, faults,
                   locals, fnArg, fnResult>>

\* the original sync after its read of the target dataset (steps 3 and 4): the read or
\* the matcher throws and the sync ends with the error, or the updates are prepared
\* from the calls of the platform and the rows read, none when one of the two is empty
serviceRead(run, thrown, rows) ==
    LET result == IF Len(rows) > 0 /\ Len(run.calls) > 0
                  THEN matchAndPrepareUpdates(run.calls, rows)
                  ELSE [updates |-> <<>>, unmatched |-> 0, skipped |-> 0]
    IN  IF thrown \/ Throws(result) THEN [newServiceRun EXCEPT !.stage = "thrown"]
        ELSE IF result.updates = <<>> THEN [newServiceRun EXCEPT !.stage = "finished"]
        ELSE [newServiceRun EXCEPT !.stage = "updating", !.updates = result.updates]

\* the read of the target dataset of an original sync that an execution awaits arrives
ServiceReads ==
    /\ \E n \in executingServices, thrown \in BOOLEAN :
         /\ scheduler.executions[n].run.stage = "saved"
         /\ \E rows \in getCallsForDateRange(elocal_call_data,
                                             fullRangeStartUTC(ServiceRange),
                                             fullRangeEndUTC(ServiceRange),
                                             scheduler.executions[n].service[1].category) :
              scheduler' = [scheduler EXCEPT
                              !.executions[n].run = serviceRead(@, thrown, rows)]
    /\ UNCHANGED <<tz, pc, elocal_call_data, ringba_original_sync, ringbaApi, syncArgs,
                   runVars, summaries, snapshots, opLog, faults, locals, fnArg, fnResult>>

\* the target dataset after the UPDATE a service stands before, on the table as it is
\* when the statement arrives: the next update of the original sync (step 5), or the
\* link of the target row to the call of the platform by the cost sync
serviceUpdate(type, run) ==
    IF type = "ringba-original-sync"
    THEN updateOriginalPayout(elocal_call_data, run.updates[1].elocalCallId,
                              run.updates[1].originalPayout,
                              run.updates[1].originalRevenue,
                              Some(run.updates[1].ringbaInboundCallId)).table
    ELSE updateRingbaInboundCallId(elocal_call_data, 1,
                                   ServiceRingbaCall.inboundCallId).table

\* where a service stands after its UPDATE: the original sync counts an UPDATE that
\* throws as failed and goes on, to the next update or to its end; the cost sync ends,
\* with the error when the UPDATE throws
afterUpdate(type, run, thrown) ==
    IF type = "ringba-original-sync"
    THEN [run EXCEPT !.updates = Tail(@),
                     !.stage = IF Len(run.updates) > 1 THEN "updating" ELSE "finished"]
    ELSE [run EXCEPT !.stage = IF thrown THEN "thrown" ELSE "finished"]

\* an UPDATE of the target dataset by a service that an execution awaits arrives, and
\* is carried out or throws
ServiceUpdate ==
    /\ \E n \in executingServices, thrown \in BOOLEAN :
         /\ scheduler.executions[n].run.stage = "updating"
         /\ elocal_call_data' =
                IF thrown THEN elocal_call_data
                ELSE serviceUpdate(scheduler.executions[n].service[1].type,
                                   scheduler.executions[n].run)
         /\ scheduler' = [scheduler EXCEPT
                            !.executions[n].run =
                                afterUpdate(scheduler.executions[n].service[1].type, @,
                                            thrown)]
    /\ UNCHANGED <<tz, pc, ringba_original_sync, ringbaApi, syncArgs, runVars, summaries,
                   snapshots, opLog, faults, locals, fnArg, fnResult>>

\* the service an execution awaits has returned or thrown: executeService reports
\* success or failure (lines 196-212), executeSchedule counts it and either waits two
\* seconds or returns
ServiceReturns ==
    /\ \E n \in executingServices :
         LET x == scheduler.executions[n]
             success == x.run.stage = "finished"
             counted == [x EXCEPT !.serviceResults =
                                      Append(@, [success |-> success,
                                                 serviceName |-> x.service[1].name]),
                                  !.successCount = IF success THEN @ + 1 ELSE @,
                                  !.failureCount = IF success THEN @ ELSE @ + 1,
                                  !.run = newServiceRun]
             last == x.i = Len(enabledServices(x.schedule))
             after == IF last
                      THEN [counted EXCEPT
                               !.phase = "done",
                               !.service = NULL,
                               !.result = Some(scheduleResult(x.schedule,
                                                              counted.serviceResults,
                                                              counted.successCount,
                                                              counted.failureCount))]
                      ELSE [counted EXCEPT !.phase = "delay"]
         IN  /\ x.run.stage \in {"finished", "thrown"}
             /\ scheduler' = [scheduler EXCEPT
                                !.executions[n] = after,
                                !.jobStats = IF last THEN finishedStats(@, after) ELSE @]
    /\ UNCHANGED <<tz, pc, elocal_call_data, ringba_original_sync, ringbaApi, syncArgs,
                   runVars, summaries, snapshots, opLog, faults, locals, fnArg, fnResult>>

\* the index of the service that is executed once more
nextServiceIndex_Again(i) == i

\* the for loop of executeSchedule: i++
nextServiceIndex(i) == i + 1

\* the two-second timer of an execution fires: the next enabled service is called
DelayElapses ==
    /\ scheduler.starting = 0
    /\ callsLeft
    /\ \E n \in 1..Len(scheduler.executions) :
         LET x == scheduler.executions[n] IN
         /\ x.phase = "delay"
         /\ scheduler' = [scheduler EXCEPT
                              !.executions[n].i = nextServiceIndex(x.i),
                              !.executions[n].service =
                                  Some(enabledServices(x.schedule)[nextServiceIndex(x.i)]),
                              !.executions[n].phase = "service"]
    /\ UNCHANGED <<tz, pc, elocal_call_data, ringba_original_sync, ringbaApi, syncArgs,
                   runVars, summaries, snapshots, opLog, faults, locals, fnArg, fnResult>>

\* a scheduler process with the given scheduler and empty tables
SchedulerProcess(s) ==
    /\ tz = 0
    /\ ringbaCalls = <<>>
    /\ elocalCalls = <<>>
    /\ elocal_call_data = <<>>
    /\ ringba_original_sync = <<>>
    /\ ringbaApi = <<>>
    /\ syncArgs = NULL
    /\ saveResult = NULL
    /\ prepared = NULL
    /\ summaries = <<>>
    /\ snapshots = <<>>
    /\ opLog = <<>>
    /\ faults = NoFaults
    /\ locals = NULL
    /\ fnArg = NULL
    /\ fnResult = NULL
    /\ pc = "scheduler"
    /\ scheduler = s

\* the default configuration
InitSched ==
    \E missingVars \in BOOLEAN :
        SchedulerProcess(SchedulerFor(DEFAULT_SCHEDULER_CONFIG, missingVars))

NextSched ==
    \/ StartCalled
    \/ InitializeThrows
    \/ StartContinues
    \/ Stop
    \/ CronTrigger
    \/ RunScheduleNow
    \/ ServiceRequest
    \/ ServiceSelect
    \/ ServiceWrite
    \/ ServiceReads
    \/ ServiceUpdate
    \/ ServiceReturns
    \/ DelayElapses

SpecSched == InitSched /\ [][NextSched]_vars

\* configurations in which services and a schedule are switched off: a nightly schedule
\* of three services, each enabled or not, and a second schedule, enabled or not
NightlyServices == <<"elocal-fetch", "ringba-original-sync", "ringba-cost-sync">>

SwitchedConfig(flags, secondEnabled) ==
    << [name |-> "Nightly", time |-> "00:00", enabled |-> TRUE,
        services |-> [n \in 1..Len(NightlyServices) |->
                        [name |-> NightlyServices[n], type |-> NightlyServices[n],
                         category |-> NULL, enabled |-> flags[n]]]],
       [name |-> "Morning", time |-> "06:00", enabled |-> secondEnabled,
        services |-> << Service("ringba-cost-sync", "ringba-cost-sync", NULL) >>] >>

InitSwitched ==
    \E flags \in [1..Len(NightlyServices) -> BOOLEAN], secondEnabled \in BOOLEAN,
       missingVars \in BOOLEAN :
        SchedulerProcess(SchedulerFor(SwitchedConfig(flags, secondEnabled), missingVars))

SpecSwitched == InitSwitched /\ [][NextSched]_vars

-----------------------------------------------------------------------------
(* The Eastern date part of an instant: getEasternDatePart applied on its own *)

\* day number of 2026-03-08, the second Sunday of March
March8 == March1 + 7

\* the instants around both transitions of 2026 and on ordinary days before and after
OffsetDays == (March1 .. March1 + 13) \cup (Nov1 - 1 .. Nov1 + 1)
OffsetHoursOfDay == 3 .. 8
OffsetMinutes == {0, 30}

InitOffset ==
    /\ pc = "call"
    /\ \E day \in OffsetDays, h \in OffsetHoursOfDay, m \in OffsetMinutes :
            fnArg = Some(At(day, h, m, 0))
    /\ fnResult = NULL
    /\ tz = 0
    /\ ringbaCalls = <<>> /\ elocalCalls = <<>>
    /\ elocal_call_data = <<>> /\ ringba_original_sync = <<>>
    /\ ringbaApi = <<>> /\ syncArgs = NULL /\ saveResult = NULL /\ prepared = NULL
    /\ summaries = <<>> /\ snapshots = <<>> /\ opLog = <<>>
    /\ faults = NoFaults
    /\ scheduler = NewScheduler
    /\ locals = NULL

\* getEasternDatePart(date)
GetEasternDatePart ==
    /\ pc = "call"
    /\ fnResult' = Some(getEasternDatePart(fnArg[1]))
    /\ pc' = "returned"
    /\ UNCHANGED <<tz, elocal_call_data, ringba_original_sync, ringbaApi, syncArgs, runVars,
                   summaries, snapshots, opLog, faults, scheduler, locals, fnArg>>

NextOffset == GetEasternDatePart

SpecOffset == InitOffset /\ [][NextOffset]_vars

-----------------------------------------------------------------------------
(* The phone normalizer on its own: both copies of toE164 applied to written forms *)

\* the written forms of a ten-digit North-American number: with or without '+', with or
\* without the country code 1, with or without spaces and punctuation
WrittenForms(national) ==
    LET area == SubSeq(national, 1, 3)
        exchange == SubSeq(national, 4, 6)
        line == SubSeq(national, 7, 10)
    IN  {plus \o country \o gap \o open \o area \o close \o exchange \o dash \o line :
            plus \in {<<>>, <<"+">>},
            country \in {<<>>, <<"1">>},
            gap \in {<<>>, <<" ">>},
            open \in {<<>>, <<"(">>},
            close \in {<<>>, <<")">>, <<")", " ">>, <<"-">>},
            dash \in {<<>>, <<"-">>, <<".">>}}

\* values that are no North-American number: empty, no digit, seven digits, twelve digits
OtherRawValues ==
    {<<>>, <<"n", "/", "a">>, SubSeq(PhoneA, 4, 10), <<"4", "4">> \o PhoneA}

RawPhones == WrittenForms(PhoneA) \cup WrittenForms(PhoneB) \cup OtherRawValues

InitPhone ==
    /\ pc = "call"
    /\ \E copy \in {"sync", "neon"}, raw \in RawPhones :
            fnArg = Some([copy |-> copy, raw |-> raw])
    /\ fnResult = NULL
    /\ tz = 0
    /\ ringbaCalls = <<>> /\ elocalCalls = <<>>
    /\ elocal_call_data = <<>> /\ ringba_original_sync = <<>>
    /\ ringbaApi = <<>> /\ syncArgs = NULL /\ saveResult = NULL /\ prepared = NULL
    /\ summaries = <<>> /\ snapshots = <<>> /\ opLog = <<>>
    /\ faults = NoFaults
    /\ scheduler = NewScheduler
    /\ locals = NULL

\* toE164(raw) of ringba-original-sync.service.ts
ToE164 ==
    /\ pc = "call"
    /\ fnArg[1].copy = "sync"
    /\ fnResult' = Some(toE164(fnArg[1].raw))
    /\ pc' = "returned"
    /\ UNCHANGED <<tz, elocal_call_data, ringba_original_sync, ringbaApi, syncArgs, runVars,
                   summaries, snapshots, opLog, faults, scheduler, locals, fnArg>>

\* toE164(raw) of the database layer
ToE164Neon ==
    /\ pc = "call"
    /\ fnArg[1].copy = "neon"
    /\ fnResult' = Some(toE164_neon(fnArg[1].raw))
    /\ pc' = "returned"
    /\ UNCHANGED <<tz, elocal_call_data, ringba_original_sync, ringbaApi, syncArgs, runVars,
                   summaries, snapshots, opLog, faults, scheduler, locals, fnArg>>

NextPhone == ToE164 \/ ToE164Neon

SpecPhone == InitPhone /\ [][NextPhone]_vars

-----------------------------------------------------------------------------
(* The matcher on records of unknown or missing category *)

\* a target id that is not a key of TARGET_IDS
UnknownTarget == "TA00000000000000000000000000000000"

\* unknown target ids that hold the letters of 'static'
UnknownStaticTargets == {"static-line-7", "My Static Target"}

\* the target ids an origin record may carry: the two known ones, unknown ones, the name
\* of a member of Object.prototype, none
CategoryTargetIds ==
    {TargetStatic, TargetApi, UnknownTarget, "constructor", ""} \cup UnknownStaticTargets

\* calls of the eLocal feed with and without a category
CategoryElocalCalls ==
    [callerId : {PhoneA},
     dateOfCall : {Some(At(Feb3, 17, 5, 30)), Some(At(Feb3, 17, 10, 0))},
     originalDateOfCall : {NULL},
     elocalPayout : {1200},
     category : {"STATIC", "API", ""},
     ringbaInboundCallId : {NULL},
     ringbaOriginalPayout : {NULL},
     ringbaOriginalRevenue : {NULL}]

\* the origin list of a run, the batch insertCallsBatch was given (kept in fnArg) and the
\* rows getCallsForDateRange returns for the day
InitCategory ==
    /\ pc = "match"
    /\ \E zone \in ProcessTZ,
          f \in SeqsUpTo(OriginAttrs({PhoneA}, CategoryTargetIds, {At(Feb3, 17, 0, 0)},
                                     {1200}), MaxOrigin) \ {<<>>},
          batch \in SeqsUpTo(CategoryElocalCalls, MaxTarget) \ {<<>>} :
            /\ tz = zone
            /\ ringbaCalls = OriginList(f)
            /\ fnArg = Some(batch)
            /\ elocal_call_data = insertCallsBatch(<<>>, batch)
            /\ elocalCalls \in
                    getCallsForDateRange(elocal_call_data,
                                         fullRangeStartUTC([startDay |-> Feb3, endDay |-> Feb3]),
                                         fullRangeEndUTC([startDay |-> Feb3, endDay |-> Feb3]),
                                         NULL)
    /\ fnResult = NULL
    /\ ringba_original_sync = <<>>
    /\ ringbaApi = <<>> /\ syncArgs = NULL /\ saveResult = NULL /\ prepared = NULL
    /\ summaries = <<>> /\ snapshots = <<>> /\ opLog = <<>>
    /\ faults = NoFaults
    /\ scheduler = NewScheduler
    /\ locals = NULL

SpecCategory == InitCategory /\ [][NextMatch]_vars

-----------------------------------------------------------------------------
(* The paginated fetch of one target: getCallsByTargetId (ringba-target-calls.ts) *)
(* fnArg is the call: the records the feed holds for the window, newest first,   *)
(* options.pageSize, the field in which the feed reports its total, and the      *)
(* request (if any) the feed answers with an HTTP error. A feed reports its     *)
(* total as totalCount, as total, or not at all.                                 *)

MaxFeed == 5

DefaultPageSize == 100
PageSizeCap == 1000

Min(a, b) == IF a < b THEN a ELSE b

\* Math.min(options.pageSize ?? 100, 1000)
effectivePageSize(pageSize) == Min(OrElse(pageSize, DefaultPageSize), PageSizeCap)

\* the feed's answer to a request: the records from offset on, at most size of them
pageOf(records, offset, size) ==
    SubSeq(records, offset + 1, Min(offset + size, Len(records)))

\* data.report?.totalCount ?? data.report?.total ?? records.length
totalCountOf(report) ==
    IF report.totalCount # NULL THEN report.totalCount[1]
    ELSE IF report.total # NULL THEN report.total[1]
    ELSE Len(report.records)

\* allCalls.push({...}) for one record of a page
callOfRecord(record) ==
    [inboundCallId |-> record.inboundCallId,
     callDate |-> record.callDt,
     callerId |-> record.tagInboundNumber,
     payout |-> OrElse(record.payoutAmount, 0),
     revenue |-> OrElse(record.conversionAmount, 0)]

callsOfPage(records) == [i \in 1..Len(records) |-> callOfRecord(records[i])]

\* the loop ends after this page, wrongly: only a short page ends it
lastPage_ShortPageOnly(recordCount, pageSize, callCount, totalRecords) ==
    recordCount < pageSize

\* records.length < pageSize || allCalls.length >= totalRecords
lastPage(recordCount, pageSize, callCount, totalRecords) ==
    recordCount < pageSize \/ callCount >= totalRecords

\* the report the feed sends for a request
reportOf(call, offset, size) ==
    [records |-> pageOf(call.records, offset, size),
     totalCount |-> IF call.totalField = "totalCount" THEN Some(Len(call.records)) ELSE NULL,
     total |-> IF call.totalField = "total" THEN Some(Len(call.records)) ELSE NULL]

\* the records a feed holds: the i-th has inboundCallId ToString(i); the amounts of
\* every second record are missing
FeedRecords(n) ==
    [i \in 1..n |->
        [inboundCallId |-> Some(ToString(i)),
         callDt |-> Some(EasternToUtc(At(Feb3, 17, 0, 0)) - i * SecondsPerMinute),
         tagInboundNumber |-> PhoneA,
         payoutAmount |-> IF i % 2 = 0 THEN NULL ELSE Some(700),
         conversionAmount |-> IF i % 2 = 0 THEN NULL ELSE Some(900)]]

PageSizes == {NULL, Some(1), Some(2), Some(3), Some(PageSizeCap + 1)}

InitPage ==
    /\ pc = "page"
    /\ \E n \in 0..MaxFeed, pageSize \in PageSizes, totalField \in {"totalCount", "total", "none"},
          failAt \in 0..2 :
            fnArg = Some([records |-> FeedRecords(n), pageSize |-> pageSize,
                          totalField |-> totalField, failAt |-> failAt])
    /\ locals = Some([offset |-> 0, allCalls |-> <<>>, totalRecords |-> 0])
    /\ fnResult = NULL
    /\ tz = 0
    /\ ringbaCalls = <<>> /\ elocalCalls = <<>>
    /\ elocal_call_data = <<>> /\ ringba_original_sync = <<>>
    /\ ringbaApi = <<>> /\ syncArgs = NULL /\ saveResult = NULL /\ prepared = NULL
    /\ summaries = <<>> /\ snapshots = <<>> /\ opLog = <<>>
    /\ faults = NoFaults
    /\ scheduler = NewScheduler

\* the requests issued so far are in opLog
NextRequestFails == fnArg[1].failAt = Len(opLog) + 1

\* one turn of the while loop: the request is answered with a page
FetchPage ==
    /\ pc = "page"
    /\ ~NextRequestFails
    /\ LET pageSize == effectivePageSize(fnArg[1].pageSize)
           offset == locals[1].offset
           report == reportOf(fnArg[1], offset, pageSize)
           allCalls == locals[1].allCalls \o callsOfPage(report.records)
           totalRecords == totalCountOf(report)
       IN  /\ opLog' = Append(opLog, Issued("calllogs", [offset |-> offset, size |-> pageSize],
                                            <<>>))
           /\ IF lastPage(Len(report.records), pageSize, Len(allCalls), totalRecords)
              THEN /\ pc' = "returned"
                   /\ fnResult' = Some([ok |-> TRUE, calls |-> allCalls])
                   /\ locals' = Some([offset |-> offset, allCalls |-> allCalls,
                                      totalRecords |-> totalRecords])
              ELSE /\ pc' = "page"
                   /\ fnResult' = fnResult
                   /\ locals' = Some([offset |-> offset + pageSize, allCalls |-> allCalls,
                                      totalRecords |-> totalRecords])
    /\ UNCHANGED <<tz, elocal_call_data, ringba_original_sync, ringbaApi, syncArgs, runVars,
                   summaries, snapshots, faults, scheduler, fnArg>>

\* one turn of the while loop: the response is not ok, the function returns a Left
FetchPageFails ==
    /\ pc = "page"
    /\ NextRequestFails
    /\ opLog' = Append(opLog, Issued("calllogs",
                                     [offset |-> locals[1].offset,
                                      size |-> effectivePageSize(fnArg[1].pageSize)], <<>>))
    /\ pc' = "failed"
    /\ fnResult' = Some([ok |-> FALSE, calls |-> <<>>])
    /\ UNCHANGED <<tz, elocal_call_data, ringba_original_sync, ringbaApi, syncArgs, runVars,
                   summaries, snapshots, faults, scheduler, locals, fnArg>>

NextPage == FetchPage \/ FetchPageFails

\* every request is answered, so the loop takes its next turn
SpecPage == InitPage /\ [][NextPage]_vars /\ WF_vars(NextPage)

-----------------------------------------------------------------------------
(* The matcher on one bucket: origin records and rows of one caller and category *)
(* that differ in time and payout                                                *)

BucketOriginTimes == {At(Feb3, 17, 0, 0), At(Feb3, 20, 20, 0)}
BucketTargetTimes == {At(Feb3, 17, 5, 30), At(Feb3, 20, 20, 0), At(Feb3 + 1, 0, 10, 0)}

\* payouts in cents: none, 1.01, 12.00, 15.00
BucketPayouts == {0, 101, 1200, 1500}

InitBucket ==
    /\ pc = "match"
    /\ \E zone \in ProcessTZ,
          f \in SeqsUpTo(OriginAttrs({PhoneA}, {TargetStatic}, BucketOriginTimes,
                                     {0, 100, 1200}), MaxOrigin) \ {<<>>},
          g \in SeqsUpTo(TargetAttrs({PhoneA}, {"STATIC"}, BucketTargetTimes,
                                     BucketPayouts), MaxTarget) :
            Idle(zone, OriginList(f), TargetList(g))

SpecBucket == InitBucket /\ [][NextMatch]_vars

-----------------------------------------------------------------------------
(* Sync runs over a store whose rows lie on the days around the requested range *)

\* the days from two before the first day of a range to three after it
ReadDays == (Feb3 - 2) .. (Feb3 + 3)

\* calls of the eLocal feed at noon of those days, and calls of withheld numbers
\* ('Unknown', 'Restricted') at noon of the first day of the range: these caller ids hold
\* no digit, toE164 returns null for them and insertCallsBatch stores them as they are
ReadElocalCalls ==
    [callerId : {PhoneA},
     dateOfCall : {Some(At(d, 12, 0, 0)) : d \in ReadDays},
     originalDateOfCall : {NULL},
     elocalPayout : {1200},
     category : {"STATIC", "API"},
     ringbaInboundCallId : {NULL},
     ringbaOriginalPayout : {NULL},
     ringbaOriginalRevenue : {NULL}]
    \cup
    [callerId : {<<"U", "n", "k", "n", "o", "w", "n">>,
                 <<"R", "e", "s", "t", "r", "i", "c", "t", "e", "d">>},
     dateOfCall : {Some(At(Feb3, 12, 0, 0))},
     originalDateOfCall : {NULL},
     elocalPayout : {1200},
     category : {"STATIC"},
     ringbaInboundCallId : {NULL},
     ringbaOriginalPayout : {NULL},
     ringbaOriginalRevenue : {NULL}]

\* the API holds one call of the first day, or none
ReadApiAnswers(range) ==
    LET call == RingbaCallRecord(Some("r1"), PhoneA, At(Feb3, 12, 5, 0), 700, 900)
    IN  {[s \in Slots(range) |->
            [ok |-> TRUE,
             calls |-> IF held /\ s = <<range.startDay, TargetStatic>> THEN <<call>>
                       ELSE <<>>]] : held \in BOOLEAN}

InitRead ==
    /\ pc = "idle"
    /\ tz \in ProcessTZ
    /\ syncArgs \in [range : SyncRanges, category : {NULL, Some("STATIC")}]
    /\ ringbaApi \in ReadApiAnswers(syncArgs.range)
    /\ \E batch \in SeqsUpTo(ReadElocalCalls, MaxElocal) :
         elocal_call_data = insertCallsBatch(<<>>, batch)
    /\ ringba_original_sync = <<>>
    /\ ringbaCalls = <<>>
    /\ saveResult = NULL
    /\ elocalCalls = <<>>
    /\ prepared = NULL
    /\ summaries = <<>>
    /\ snapshots = <<>>
    /\ opLog = <<>>
    /\ NoAux

SpecRead == InitRead /\ [][Next]_vars

-----------------------------------------------------------------------------
(* The conversion of a Ringba date to Eastern time: convertRingbaDateToEST on its own *)

\* convertRingbaDateToEST(ringbaDateStr) for the date string of a UTC instant
ConvertRingbaDateToEST ==
    /\ pc = "call"
    /\ fnResult' = Some(convertRingbaDateToEST(fnArg))
    /\ pc' = "converted"
    /\ UNCHANGED <<tz, elocal_call_data, ringba_original_sync, ringbaApi, syncArgs, runVars,
                   summaries, snapshots, opLog, faults, scheduler, locals, fnArg>>

NextConvert == ConvertRingbaDateToEST

SpecConvert == InitOffset /\ [][NextConvert]_vars

-----------------------------------------------------------------------------
(* The sync run on a feed that returns records without inboundCallId *)

\* the calls the Ringba platform returns: r1, and a call of the same caller two minutes
\* later whose record has no inboundCallId
FeedRingbaRecords ==
    {RingbaCallRecord(Some("r1"), PhoneA, At(Feb3, 17, 0, 0), 700, 900),
     RingbaCallRecord(NULL, PhoneA, At(Feb3, 17, 2, 0), 300, 400)}

\* the answers of the API: no call, one of the calls, or both
FeedApiAnswers(range) ==
    [Slots(range) -> {[ok |-> TRUE, calls |-> calls] :
                        calls \in {<<>>} \cup {<<c>> : c \in FeedRingbaRecords}
                                  \cup {<<c, d>> : c, d \in FeedRingbaRecords}}]

InitFeed ==
    /\ pc = "idle"
    /\ tz = 0
    /\ syncArgs \in [range : SyncRanges, category : {NULL}]
    /\ ringbaApi \in FeedApiAnswers(syncArgs.range)
    /\ \E batch \in SeqsUpTo(RunElocalCalls, MaxElocal) :
         elocal_call_data = insertCallsBatch(<<>>, batch)
    /\ ringba_original_sync = <<>>
    /\ ringbaCalls = <<>>
    /\ saveResult = NULL
    /\ elocalCalls = <<>>
    /\ prepared = NULL
    /\ summaries = <<>>
    /\ snapshots = <<>>
    /\ opLog = <<>>
    /\ faults \in {NoFaults, [NoFaults EXCEPT !.saveThrows = {1}]}
    /\ scheduler = NewScheduler
    /\ locals = NULL
    /\ fnArg = NULL
    /\ fnResult = NULL

SpecFeed == InitFeed /\ [][Next]_vars

-----------------------------------------------------------------------------
(* The deduplication of the eLocal feed: processCampaignCalls (helpers.ts) on its own. *)
(* Date strings, caller ids, categories and keys are strings, and normalizeDateTime and *)
(* the rewriting of a repeated timestamp work on their characters.                     *)

MaxRaw == 3

\* the characters that \s matches and trim() removes, among those of the feed
Whitespace == {" ", "\t", "\n", "\r"}

\* str.charAt(i - 1): the i-th character, '' outside the string
charAt(str, i) == IF i \in 1..Len(str) THEN SubSeq(str, i, i) ELSE ""

\* str.substring(i - 1): the string from its i-th character on
substringFrom(str, i) == IF i > Len(str) THEN "" ELSE SubSeq(str, i, Len(str))

RECURSIVE trimStart(_)
trimStart(str) ==
    IF charAt(str, 1) \in Whitespace THEN trimStart(substringFrom(str, 2)) ELSE str

RECURSIVE trimEnd(_)
trimEnd(str) ==
    IF charAt(str, Len(str)) \in Whitespace THEN trimEnd(SubSeq(str, 1, Len(str) - 1))
    ELSE str

\* String.prototype.trim
trim(str) == trimEnd(trimStart(str))

\* how many of the characters from the i-th on are in the class, up to max
RECURSIVE runAt(_, _, _, _)
runAt(str, i, chars, max) ==
    IF max > 0 /\ charAt(str, i) \in chars THEN 1 + runAt(str, i + 1, chars, max - 1) ELSE 0

DigitValue ==
    "0" :> 0 @@ "1" :> 1 @@ "2" :> 2 @@ "3" :> 3 @@ "4" :> 4 @@
    "5" :> 5 @@ "6" :> 6 @@ "7" :> 7 @@ "8" :> 8 @@ "9" :> 9

DigitChars == <<"0", "1", "2", "3", "4", "5", "6", "7", "8", "9">>

\* the number that the first n characters of a string of digits write
RECURSIVE valueOfDigits(_, _)
valueOfDigits(str, n) ==
    IF n = 0 THEN 0 ELSE 10 * valueOfDigits(str, n - 1) + DigitValue[charAt(str, n)]

\* parseInt(str, 10): leading whitespace, a sign, then the digits up to the first other
\* character; NaN (no value) when there is no digit
parseInt(str) ==
    LET s == trimStart(str)
        signed == charAt(s, 1) \in {"+", "-"}
        digits == IF signed THEN substringFrom(s, 2) ELSE s
        n == runAt(digits, 1, Digits, Len(digits))
    IN  IF n = 0 THEN NULL
        ELSE IF charAt(s, 1) = "-" THEN Some(0 - valueOfDigits(digits, n))
        ELSE Some(valueOfDigits(digits, n))

\* String(n) of an integer
RECURSIVE numberToString(_)
numberToString(n) ==
    IF n < 0 THEN "-" \o numberToString(0 - n)
    ELSE IF n < 10 THEN DigitChars[n + 1]
    ELSE numberToString(n \div 10) \o DigitChars[(n % 10) + 1]

\* a % b of JavaScript: the remainder has the sign of a
remainder(a, b) == IF a >= 0 THEN a % b ELSE 0 - ((0 - a) % b)

\* str.padStart(targetLength, '0')
RECURSIVE padStart(_, _)
padStart(str, targetLength) ==
    IF Len(str) >= targetLength THEN str ELSE padStart("0" \o str, targetLength)

\* str.indexOf(c, from - 1) + 1: the first position at or after from that holds c, or 0
RECURSIVE indexOf(_, _, _)
indexOf(str, c, from) ==
    IF from > Len(str) THEN 0
    ELSE IF charAt(str, from) = c THEN from
    ELSE indexOf(str, c, from + 1)

\* str.split(separator), for a separator of one character
RECURSIVE split(_, _)
split(str, separator) ==
    LET i == indexOf(str, separator, 1) IN
    IF i = 0 THEN <<str>>
    ELSE <<SubSeq(str, 1, i - 1)>> \o split(substringFrom(str, i + 1), separator)

\* EST|CST|PST|MST|EDT|CDT|PDT|MDT, matched without regard to case
TimezoneAbbreviations == {"est", "cst", "pst", "mst", "edt", "cdt", "pdt", "mdt"}

\* dateTimeStr.replace(/\s+(EST|...|MDT)$/i, '').trim() (line 17)
cleanedOf(dateTimeStr) ==
    LET n == Len(dateTimeStr) IN
    IF /\ n >= 4
       /\ charAt(dateTimeStr, n - 3) \in Whitespace
       /\ toLowerCase(SubSeq(dateTimeStr, n - 2, n)) \in TimezoneAbbreviations
    THEN trim(SubSeq(dateTimeStr, 1, n - 4))
    ELSE trim(dateTimeStr)

\* the parts of the patterns of normalizeDateTime: a run of min to max characters of a
\* class (max null: of any length), one of some words of two letters whatever their
\* case, a part that may be missing, the end of the string; group says that the part is
\* a capturing group
Run(chars, min, max, group) ==
    [kind |-> "run", chars |-> chars, min |-> min, max |-> max, group |-> group]
Word(words) == [kind |-> "word", words |-> words, group |-> TRUE]
Optional(pattern) == [kind |-> "optional", pattern |-> pattern, group |-> FALSE]
End == [kind |-> "end", group |-> FALSE]

\* /^(\d{1,2})\/(\d{1,2})\/(\d{2,4})\s+(\d{1,2}):(\d{2})\s*(AM|PM)?$/i (line 20)
pattern1 ==
    <<Run(Digits, 1, Some(2), TRUE), Run({"/"}, 1, Some(1), FALSE), Run(Digits, 1, Some(2), TRUE),
      Run({"/"}, 1, Some(1), FALSE), Run(Digits, 2, Some(4), TRUE), Run(Whitespace, 1, NULL, FALSE),
      Run(Digits, 1, Some(2), TRUE), Run({":"}, 1, Some(1), FALSE), Run(Digits, 2, Some(2), TRUE),
      Run(Whitespace, 0, NULL, FALSE), Optional(<<Word({"am", "pm"})>>), End>>

\* /^(\d{4})-(\d{2})-(\d{2})[T\s](\d{2}):(\d{2})(?::(\d{2}))?/ (line 52): no $, so anything
\* may follow
pattern2 ==
    <<Run(Digits, 4, Some(4), TRUE), Run({"-"}, 1, Some(1), FALSE), Run(Digits, 2, Some(2), TRUE),
      Run({"-"}, 1, Some(1), FALSE), Run(Digits, 2, Some(2), TRUE),
      Run({"T"} \cup Whitespace, 1, Some(1), FALSE), Run(Digits, 2, Some(2), TRUE),
      Run({":"}, 1, Some(1), FALSE), Run(Digits, 2, Some(2), TRUE),
      Optional(<<Run({":"}, 1, Some(1), FALSE), Run(Digits, 2, Some(2), TRUE)>>)>>

\* the groups of a part that is missing: each is undefined, written ''
RECURSIVE undefinedGroups(_)
undefinedGroups(pattern) ==
    IF pattern = <<>> THEN <<>>
    ELSE (IF Head(pattern).group THEN <<"">> ELSE <<>>) \o undefinedGroups(Tail(pattern))

\* the match of the parts of the pattern from the k-th on at position i of the string:
\* the groups and the position after the match, or null. A run takes all the characters
\* it can: in both patterns the part after a run starts with a character that is not of
\* the class of the run, so that a shorter run matches nothing more. A part that may be
\* missing is taken if the rest matches after it, and left out otherwise.
RECURSIVE matchFrom(_, _, _, _, _)
matchFrom(str, i, pattern, k, groups) ==
    IF k > Len(pattern) THEN Some([groups |-> groups, next |-> i])
    ELSE IF pattern[k].kind = "run"
    THEN LET n == runAt(str, i, pattern[k].chars,
                        IF pattern[k].max = NULL THEN Len(str) ELSE pattern[k].max[1])
         IN
         IF n < pattern[k].min THEN NULL
         ELSE matchFrom(str, i + n, pattern, k + 1,
                        IF pattern[k].group
                        THEN Append(groups, SubSeq(str, i, i + n - 1))
                        ELSE groups)
    ELSE IF pattern[k].kind = "word"
    THEN IF i + 1 <= Len(str) /\ toLowerCase(SubSeq(str, i, i + 1)) \in pattern[k].words
         THEN matchFrom(str, i + 2, pattern, k + 1, Append(groups, SubSeq(str, i, i + 1)))
         ELSE NULL
    ELSE IF pattern[k].kind = "optional"
    THEN LET inner == matchFrom(str, i, pattern[k].pattern, 1, groups)
             taken == IF inner = NULL THEN NULL
                      ELSE matchFrom(str, inner[1].next, pattern, k + 1, inner[1].groups)
         IN  IF taken # NULL THEN taken
             ELSE matchFrom(str, i, pattern, k + 1,
                            groups \o undefinedGroups(pattern[k].pattern))
    ELSE IF i = Len(str) + 1
    THEN matchFrom(str, i, pattern, k + 1, groups)
    ELSE NULL

\* cleaned.match(pattern): the capturing groups, or null
match(cleaned, pattern) ==
    IF matchFrom(cleaned, 1, pattern, 1, <<>>) = NULL THEN NULL
    ELSE Some(matchFrom(cleaned, 1, pattern, 1, <<>>)[1].groups)

\* lines 26-30: a year of two digits becomes 20yy up to 30 and 19yy above
fourDigitYear(year) ==
    IF Len(year) = 2
    THEN (IF parseInt(year)[1] <= 30 THEN "20" ELSE "19") \o year
    ELSE year

\* lines 33-41: the hour of the 24-hour clock
hour24Of(hours, period) ==
    IF toLowerCase(period) = "pm" /\ parseInt(hours)[1] # 12 THEN parseInt(hours)[1] + 12
    ELSE IF toLowerCase(period) = "am" /\ parseInt(hours)[1] = 12 THEN 0
    ELSE parseInt(hours)[1]

\* lines 24-48: month, day, year, hours, minutes, period of pattern 1
fromPattern1(groups) ==
    fourDigitYear(groups[3]) \o "-" \o padStart(groups[1], 2) \o "-" \o padStart(groups[2], 2)
        \o "T" \o padStart(numberToString(hour24Of(groups[4], groups[6])), 2)
        \o ":" \o padStart(groups[5], 2) \o ":00"

\* lines 56-58: year, month, day, hours, minutes, seconds of pattern 2
fromPattern2(groups) ==
    groups[1] \o "-" \o groups[2] \o "-" \o groups[3] \o "T" \o groups[4] \o ":" \o groups[5]
        \o ":" \o (IF groups[6] = "" THEN "00" ELSE groups[6])

\* lines 19-67 for the cleaned string. A string that pattern 3 accepts is accepted by
\* pattern 2 before it.
normalizeCleaned(cleaned) ==
    IF match(cleaned, pattern1) # NULL THEN Some(fromPattern1(match(cleaned, pattern1)[1]))
    ELSE IF match(cleaned, pattern2) # NULL
    THEN Some(fromPattern2(match(cleaned, pattern2)[1]))
    ELSE NULL

\* normalizeDateTime(dateTimeStr): the string 'YYYY-MM-DDTHH:mm:ss', or null
normalizeDateTime(dateTimeStr) ==
    IF dateTimeStr = "" THEN NULL ELSE normalizeCleaned(cleanedOf(dateTimeStr))

\* normalizeDateTime(call.dateOfCall) || call.dateOfCall || '' (line 34)
normalizedOrRaw(dateOfCall) ==
    IF normalizeDateTime(dateOfCall) # NULL THEN normalizeDateTime(dateOfCall)[1]
    ELSE dateOfCall

\* String((parseInt(seconds || '0', 10) + count) % 60).padStart(2, '0') (line 52)
newSecondsOf(seconds, count) ==
    LET parsed == parseInt(IF seconds = "" THEN "0" ELSE seconds) IN
    IF parsed = NULL THEN "NaN"
    ELSE padStart(numberToString(remainder(parsed[1] + count, SecondsPerMinute)), 2)

\* lines 47-55: a repeated timestamp gets new seconds, if the string has something
\* after its first 'T'; a piece that split(':') does not give is written 'undefined'
withSequence(normalizedDateTime, count) ==
    LET parts == split(normalizedDateTime, "T")
        timePart == IF Len(parts) >= 2 THEN parts[2] ELSE ""
        pieces == split(timePart, ":")
        minutes == IF Len(pieces) >= 2 THEN pieces[2] ELSE "undefined"
        seconds == IF Len(pieces) >= 3 THEN pieces[3] ELSE ""
    IN  IF count > 0 /\ timePart # ""
        THEN parts[1] \o "T" \o pieces[1] \o ":" \o minutes \o ":"
                \o newSecondsOf(seconds, count)
        ELSE normalizedDateTime

\* the template string of lines 44 and 59
campaignKey(call, normalizedDateTime) ==
    call.callerId \o "|" \o normalizedDateTime \o "|" \o CategoryOrStatic(call.category)

\* the call pushed to processed (lines 64-76)
processedCall(call, normalizedDateTime) ==
    [callerId |-> call.callerId, dateOfCall |-> normalizedDateTime,
     elocalPayout |-> call.elocalPayout, category |-> CategoryOrStatic(call.category)]

\* the number the map has for the key, or 0
countOf(timestampCounts, key) ==
    IF key \in DOMAIN timestampCounts THEN timestampCounts[key] ELSE 0

\* the loop of processCampaignCalls from the i-th raw call on
RECURSIVE processCampaignCallsFrom(_, _, _)
processCampaignCallsFrom(acc, rawCalls, i) ==
    IF i > Len(rawCalls) THEN acc
    ELSE
    LET call == rawCalls[i]
        normalized == normalizedOrRaw(call.dateOfCall)
        baseKey == campaignKey(call, normalized)
        count == countOf(acc.timestampCounts, baseKey)
        normalizedDateTime == withSequence(normalized, count)
        key == campaignKey(call, normalizedDateTime)
        counted == [k \in DOMAIN acc.timestampCounts \cup {baseKey} |->
                       IF k = baseKey THEN count + 1 ELSE acc.timestampCounts[k]]
    IN  IF normalized = ""
        THEN processCampaignCallsFrom(acc, rawCalls, i + 1)
        ELSE processCampaignCallsFrom(
                IF key \notin acc.seen
                THEN [seen |-> acc.seen \cup {key},
                      processed |-> Append(acc.processed, processedCall(call, normalizedDateTime)),
                      timestampCounts |-> counted]
                ELSE [acc EXCEPT !.timestampCounts = counted],
                rawCalls, i + 1)

processCampaignCalls(rawCalls) ==
    processCampaignCallsFrom([seen |-> {}, processed |-> <<>>, timestampCounts |-> <<>>],
                             rawCalls, 1).processed

\* the date strings of the feed: with seconds, with 'T', to the minute with AM/PM and a
\* time zone, with one-digit fields, not a date with and without 'T', empty
DateStrings ==
    {"2026-02-03 10:00:00", "2026-02-03 10:00:01", "2026-02-03T10:00:00",
     "02/03/26 10:00 AM EST", "2/3/2026 9:59 pm", "TBD", "n/a", ""}

\* the raw calls of the feed: one caller, with and without category, two payouts
RawCalls ==
    [callerId : {"5551234567"}, dateOfCall : DateStrings, category : {"", "STATIC"},
     elocalPayout : {1200, 1500}]

InitCampaign ==
    /\ tz = 0
    /\ ringbaCalls = <<>>
    /\ elocalCalls = <<>>
    /\ elocal_call_data = <<>>
    /\ ringba_original_sync = <<>>
    /\ ringbaApi = <<>>
    /\ syncArgs = NULL
    /\ saveResult = NULL
    /\ prepared = NULL
    /\ summaries = <<>>
    /\ snapshots = <<>>
    /\ opLog = <<>>
    /\ faults = NoFaults
    /\ scheduler = NewScheduler
    /\ locals = NULL
    /\ pc = "call"
    /\ fnArg \in {Some(rawCalls) : rawCalls \in SeqsUpTo(RawCalls, MaxRaw)}
    /\ fnResult = NULL

\* processCampaignCalls(rawCalls)
ProcessCampaignCalls ==
    /\ pc = "call"
    /\ fnResult' = Some(processCampaignCalls(fnArg[1]))
    /\ pc' = "processed"
    /\ UNCHANGED <<tz, elocal_call_data, ringba_original_sync, ringbaApi, syncArgs, runVars,
                   summaries, snapshots, opLog, faults, scheduler, locals, fnArg>>

NextCampaign == ProcessCampaignCalls

SpecCampaign == InitCampaign /\ [][NextCampaign]_vars

-----------------------------------------------------------------------------
(* Claims *)

Updates == prepared[1].updates

\* the civil (Eastern) calendar day of a stored timestamp: its first ten characters
CivilDate(ts) == ts[1] \div SecondsPerDay

\* the difference of two civil times, each cut to whole minutes
CivilMinutesApart(ts1, ts2) ==
    Abs((ts1[1] \div SecondsPerMinute) - (ts2[1] \div SecondsPerMinute))

\* origin record o and target row e have the same category and normalized phone
SameBucket(o, e) ==
    /\ o.callerIdE164 # NULL
    /\ toE164(e.caller_id) = o.callerIdE164
    /\ CategoryOrStatic(e.category) = getCategoryFromTargetId(o.targetId)

\* the run assigned origin record o to target row e
Assigned(o, e) ==
    \E u \in Range(Updates) :
        u.elocalCallId = e.id /\ u.ringbaInboundCallId = o.inboundCallId

\* C1: within one call of matchAndPrepareUpdates no target row id appears in more than
\* one emitted assignment.
C1_AtMostOneConsumption ==
    pc = "matched" =>
        \A i, j \in 1..Len(Updates) :
            i # j => Updates[i].elocalCallId # Updates[j].elocalCallId

\* C1 witness: two origin records of one bucket were both assigned, and each of the two
\* targets was inside the window of both of them.
C1_Witness ==
    /\ pc = "matched"
    /\ Len(Updates) = 2
    /\ \A o \in Range(ringbaCalls), e \in Range(elocalCalls) :
            SameBucket(o, e) /\ matchCall(o, e) # NULL

\* C10 (as claimed): a pair of the same bucket on the same Eastern calendar date whose
\* minute-truncated times are more than 120 minutes apart is never assigned, in any
\* process time zone.
C10_SameDayWindowRejects ==
    pc = "matched" =>
        \A o \in Range(ringbaCalls), e \in Range(elocalCalls) :
            ( /\ SameBucket(o, e)
              /\ CivilDate(o.callDt) = CivilDate(e.call_timestamp)
              /\ CivilMinutesApart(o.callDt, e.call_timestamp) > WindowMinutes )
            => ~Assigned(o, e)

\* a row carries enrichment: its payout or its revenue is stored and not zero
HasEnrichment(row) ==
    \/ (row.ringba_original_payout # NULL /\ row.ringba_original_payout # Some(0))
    \/ (row.ringba_original_revenue # NULL /\ row.ringba_original_revenue # Some(0))

\* the row of a table with the given id
RowOf(table, id) == CHOOSE r \in Range(table) : r.id = id

\* C2 (as claimed): a target row whose payout or revenue is non-zero when a sync run
\* starts has the same payout and the same revenue when the run ends; a ringba_id it
\* already has is kept.
C2_NonZeroEnrichmentFrozen ==
    \A k \in 1..Len(snapshots) :
        \A i \in 1..Len(snapshots[k].before) :
            LET old == snapshots[k].before[i]
                new == snapshots[k].elocal_call_data[i]
            IN  HasEnrichment(old) =>
                    /\ new.ringba_original_payout = old.ringba_original_payout
                    /\ new.ringba_original_revenue = old.ringba_original_revenue
                    /\ (old.ringba_id # NULL => new.ringba_id = old.ringba_id)

\* C3: every further run with the same inputs leaves both tables as the first run left
\* them, and the mirror holds no ringba_id twice.
C3_SecondRunChangesNothing ==
    \A k \in 2..Len(snapshots) :
        /\ snapshots[k].elocal_call_data = snapshots[1].elocal_call_data
        /\ snapshots[k].ringba_original_sync = snapshots[1].ringba_original_sync
        /\ \A i, j \in 1..Len(snapshots[k].ringba_original_sync) :
                i # j => snapshots[k].ringba_original_sync[i].ringba_id
                            # snapshots[k].ringba_original_sync[j].ringba_id

\* C3 witness: two runs have finished; the first one wrote enrichment to a target row and
\* rows to the mirror, the second one matched again.
C3_Witness ==
    /\ Len(snapshots) = 2
    /\ snapshots[1].before # snapshots[1].elocal_call_data
    /\ Len(snapshots[1].ringba_original_sync) >= 2
    /\ Len(snapshots[2].updates) >= 1

\* the last gateway operation performed
LastOp == opLog[Len(opLog)]

\* a stored value mergeEnrichment is claimed to replace
AbsentOrZero(column) == column = NULL \/ column = Some(0)

\* C4 (as claimed): updateOriginalPayout sets payout and revenue of the row to the provided
\* value exactly when the stored value is NULL or zero, and ringba_id exactly when it is
\* NULL; otherwise it keeps the stored value.
C4_MergeFillsNullOrZero ==
    (opLog # <<>> /\ LastOp.op = "updateOriginalPayout") =>
        \A i \in 1..Len(LastOp.before) :
            LastOp.before[i].id = LastOp.arg.callId =>
                LET old == LastOp.before[i]
                    new == elocal_call_data[i]
                    u == LastOp.arg.u
                IN  /\ new.ringba_original_payout =
                            IF AbsentOrZero(old.ringba_original_payout)
                            THEN Some(u.originalPayout) ELSE old.ringba_original_payout
                    /\ new.ringba_original_revenue =
                            IF AbsentOrZero(old.ringba_original_revenue)
                            THEN Some(u.originalRevenue) ELSE old.ringba_original_revenue
                    /\ new.ringba_id =
                            IF old.ringba_id = NULL
                            THEN Some(u.ringbaInboundCallId) ELSE old.ringba_id

\* C5 (as claimed): when the matcher has run, no prepared update addresses a target row
\* that already has enrichment, and every matched origin call is counted once, as an
\* update or as skipped.
C5_SkippedNotUpdated ==
    (pc = "step5" /\ Len(elocalCalls) > 0 /\ Len(ringbaCalls) > 0) =>
        /\ \A u \in Range(Updates) : ~HasEnrichment(RowOf(elocalCalls, u.elocalCallId))
        /\ Len(Updates) + prepared[1].skipped = Len(ringbaCalls) - prepared[1].unmatched

\* the matches of the first run whose target row has no non-zero payout or revenue after
\* the run
ZeroMatches ==
    {i \in 1..Len(snapshots[1].updates) :
        ~HasEnrichment(RowOf(snapshots[1].elocal_call_data,
                             snapshots[1].updates[i].elocalCallId))}

\* C6 (as claimed): the second run's skippedPreserved equals the first run's matched.
C6_SecondSkippedEqualsFirstMatched ==
    Len(summaries) >= 2 => summaries[2].skippedPreserved = summaries[1].matched

\* C6 (amended): the second run's skippedPreserved equals the first run's matched less the
\* first-run matches whose target row holds no non-zero payout or revenue after the run.
C6_SecondSkippedCountsNonZero ==
    Len(summaries) >= 2 =>
        summaries[2].skippedPreserved = summaries[1].matched - Cardinality(ZeroMatches)

\* C6 witness: the first run matched two origin calls, one with payout and revenue both
\* zero on a row without enrichment; the second run has finished.
C6_Witness ==
    /\ Len(summaries) = 2
    /\ summaries[1].matched = 2
    /\ Cardinality(ZeroMatches) = 1

\* C7 (as claimed): neither updateOriginalPayout nor insertCallsBatch turns a stored
\* ringba_original_payout, ringba_original_revenue or ringba_id of a row into NULL.
C7_NeverBlanked ==
    (opLog # <<>> /\ LastOp.op \in {"updateOriginalPayout", "insertCallsBatch"}) =>
        \A i \in 1..Len(LastOp.before) :
            LET old == LastOp.before[i]
                new == elocal_call_data[i]
            IN  /\ old.ringba_original_payout # NULL => new.ringba_original_payout # NULL
                /\ old.ringba_original_revenue # NULL => new.ringba_original_revenue # NULL
                /\ old.ringba_id # NULL => new.ringba_id # NULL

\* the positions in opLog of the upserts of ringba_id id, in the order in which they
\* ended
UpsertsOf(id) ==
    {k \in 1..Len(opLog) :
        /\ opLog[k].op = "insertRingbaCallsBatch"
        /\ opLog[k].arg.inboundCallId = id}

\* the largest element of a non-empty set of numbers
Latest(S) == CHOOSE k \in S : \A m \in S : m <= k

\* C8 (as claimed): when no upsert is under way, the mirror holds no row for a ringba_id
\* never upserted, and exactly one row for a ringba_id that was upserted, with the fields
\* of its most recent upsert.
C8_MirrorOneRowPerId ==
    (pc = "store" /\ locals = <<>>) =>
        \A id \in RingbaIds :
            LET rows == {i \in 1..Len(ringba_original_sync) :
                            ringba_original_sync[i].ringba_id = id}
            IN  IF UpsertsOf(id) = {} THEN rows = {}
                ELSE /\ Cardinality(rows) = 1
                     /\ \A i \in rows :
                            ringba_original_sync[i] = MirrorRow(opLog[Latest(UpsertsOf(id))].arg)

\* C9: the origin list of a run holds no inboundCallId twice.
C9_OriginListDistinctIds ==
    \A i, j \in 1..Len(ringbaCalls) :
        i # j => ringbaCalls[i].inboundCallId # ringbaCalls[j].inboundCallId

\* C9 witness: the API returned one call in the windows of two different days, and the
\* origin list of the run has been built.
C9_Witness ==
    /\ pc = "step2"
    /\ \E a, b \in DOMAIN ringbaApi :
        /\ a[1] # b[1]
        /\ ringbaApi[a].calls # <<>>
        /\ ringbaApi[a].calls = ringbaApi[b].calls
        /\ \E c \in Range(ringbaCalls) : Some(c.inboundCallId) = ringbaApi[a].calls[1].inboundCallId

\* C11: an origin record at 23:55 and a target row at 00:10 of the next civil day, of one
\* bucket, the row being the only candidate, are assigned to each other.
C11_AdjacentDayPairMatched ==
    pc = "matched" =>
        \A o \in Range(ringbaCalls) :
            ( /\ o.callDt = Some(At(Feb3, 23, 55, 0))
              /\ Len(elocalCalls) = 1
              /\ elocalCalls[1].call_timestamp = Some(At(Feb3 + 1, 0, 10, 0))
              /\ SameBucket(o, elocalCalls[1]) )
            => Assigned(o, elocalCalls[1])

\* C11 witness: the pair was assigned in a process whose local dates are the civil dates,
\* so that the two timestamps lie on adjacent days.
C11_Witness ==
    /\ pc = "matched"
    /\ tz = 0
    /\ Len(ringbaCalls) = 1 /\ Len(elocalCalls) = 1
    /\ ringbaCalls[1].callDt = Some(At(Feb3, 23, 55, 0))
    /\ elocalCalls[1].call_timestamp = Some(At(Feb3 + 1, 0, 10, 0))
    /\ Assigned(ringbaCalls[1], elocalCalls[1])

\* the position in ringbaCalls of the origin record of an update
OriginIndex(u) ==
    CHOOSE i \in 1..Len(ringbaCalls) : ringbaCalls[i].inboundCallId = u.ringbaInboundCallId

\* the target ids consumed when the i-th origin record is processed
ConsumedBefore(i) == {u.elocalCallId : u \in {v \in Range(Updates) : OriginIndex(v) < i}}

\* the positions in elocalCalls of the unconsumed rows of the bucket of the i-th origin
\* record that pass the day and time windows
CandidatesOf(i) ==
    {k \in 1..Len(elocalCalls) :
        /\ SameBucket(ringbaCalls[i], elocalCalls[k])
        /\ elocalCalls[k].id \notin ConsumedBefore(i)
        /\ matchCall(ringbaCalls[i], elocalCalls[k]) # NULL}

ScoreOf(i, k) == matchCall(ringbaCalls[i], elocalCalls[k])[1].matchScore

\* C12: every origin record with a candidate is assigned the candidate of minimum score,
\* the earliest in the target order among those of minimum score; an origin record
\* without candidate is not assigned.
C12_MinimumScoreEarliestFirst ==
    pc = "matched" =>
        \A i \in 1..Len(ringbaCalls) :
            IF CandidatesOf(i) = {}
            THEN \A u \in Range(Updates) : OriginIndex(u) # i
            ELSE \E k \in CandidatesOf(i) :
                    /\ Assigned(ringbaCalls[i], elocalCalls[k])
                    /\ \A m \in CandidatesOf(i) :
                            \/ DoubleLess(ScoreOf(i, k), ScoreOf(i, m))
                            \/ (ScoreOf(i, k) = ScoreOf(i, m) /\ k <= m)

\* C12 witness: the first origin record had two candidates of equal score and was assigned
\* the earlier one; the second origin record was assigned the later one, the earlier
\* being consumed.
C12_Witness ==
    /\ pc = "matched"
    /\ Len(ringbaCalls) = 2 /\ Len(Updates) = 2
    /\ \E k, m \in CandidatesOf(1) :
        /\ k < m
        /\ ScoreOf(1, k) = ScoreOf(1, m)
        /\ Assigned(ringbaCalls[1], elocalCalls[k])
        /\ Assigned(ringbaCalls[2], elocalCalls[m])

\* both payouts are non-zero and within the tolerance of each other
PayoutConfirmed(o, e) ==
    /\ o.payout # 0
    /\ e.elocal_payout # 0
    /\ Abs(o.payout - e.elocal_payout) <= PayoutToleranceCents

\* C13 (as claimed): of two candidates of an origin record with the same timeDiff, one
\* payout-confirmed and the other not, the other one is not the one assigned.
C13_PayoutConfirmedPreferred ==
    pc = "matched" =>
        \A i \in 1..Len(ringbaCalls) :
            \A k, m \in CandidatesOf(i) :
                ( /\ matchCall(ringbaCalls[i], elocalCalls[k])[1].timeDiff
                        = matchCall(ringbaCalls[i], elocalCalls[m])[1].timeDiff
                  /\ PayoutConfirmed(ringbaCalls[i], elocalCalls[k])
                  /\ ~PayoutConfirmed(ringbaCalls[i], elocalCalls[m]) )
                => ~Assigned(ringbaCalls[i], elocalCalls[m])

\* the requests and statements the run in progress has issued
IssuedInRun == {k \in 1..Len(opLog) : opLog[k].run = CurrentRun}

\* the store writes among them
WritesInRun ==
    {k \in IssuedInRun : opLog[k].op \in {"insertRingbaCallsBatch", "updateOriginalPayout"}}

\* C14 (as claimed): when a run has aborted, it has issued neither a mirror upsert nor an
\* enrichment merge.
C14_AbortBeforeAnyWrite ==
    pc = "aborted" => WritesInRun = {}

\* the run that finished last: its summary, with its lists still in the variables
LastSummary == summaries[Len(summaries)]
RunFinished == pc = "idle" /\ summaries # <<>>

\* the positions of a list at which the statement throws
Thrown(failing, list) == failing \cap (1..Len(list))

\* the calls of the run that finished last whose statement of step 2 threw: the entries
\* of the log the catch of insertRingbaCallsBatch wrote
WarnedInLastRun ==
    {k \in 1..Len(opLog) : opLog[k].run = Len(summaries) /\ opLog[k].op = "console.warn"}

\* the call at position i of the origin list was skipped by step 2 of the last run
WarnedCall(i) == \E k \in WarnedInLastRun : opLog[k].arg = ringbaCalls[i].inboundCallId

\* C15 (as claimed): the summary's failed count is the number of rows whose mirror upsert
\* or enrichment merge failed.
C15_FailuresCountedAsFailed ==
    RunFinished =>
        LastSummary.failed = Cardinality(WarnedInLastRun)
                                + Cardinality(Thrown(faults.updateThrows, Updates))

\* C15 (amended): a mirror upsert that fails, by a statement that throws or by an INSERT
\* the UNIQUE constraint refuses because another caller has inserted the ringba_id since
\* the SELECT, is counted in skipped, and a failed merge in failed; every other row of
\* either batch is written; unmatched counts neither.
C15_FailuresCaughtAndCounted ==
    RunFinished =>
        /\ LastSummary.skipped = Cardinality(WarnedInLastRun)
        /\ \A i \in Thrown(faults.saveThrows, ringbaCalls) : WarnedCall(i)
        /\ LastSummary.inserted + LastSummary.updated + LastSummary.skipped
                = Len(ringbaCalls)
        /\ LastSummary.failed = Cardinality(Thrown(faults.updateThrows, Updates))
        /\ LastSummary.matched = Len(Updates) - LastSummary.failed
        /\ \A i \in 1..Len(ringbaCalls) :
                \/ WarnedCall(i)
                \/ \E r \in Range(ringba_original_sync) :
                        /\ r.ringba_id = ringbaCalls[i].inboundCallId
                        /\ OtherWrites = {} => r = MirrorRow(ringbaCalls[i])
        /\ \A i \in (1..Len(Updates)) \ faults.updateThrows :
                RowOf(elocal_call_data, Updates[i].elocalCallId).ringba_id # NULL
        /\ LastSummary.unmatched =
                IF Len(elocalCalls) > 0 /\ Len(ringbaCalls) > 0
                THEN Len(ringbaCalls) - Len(Updates) ELSE 0

\* C15 witness: of three calls the first was skipped because its statement threw, the
\* second because another caller had inserted its ringba_id between the SELECT and the
\* INSERT, and the third was inserted; the first merge failed and the second was written.
C15_Witness ==
    /\ RunFinished
    /\ faults.saveThrows = {1} /\ faults.updateThrows = {1}
    /\ Len(ringbaCalls) = 3 /\ Len(Updates) = 2
    /\ LastSummary.skipped = 2 /\ LastSummary.inserted = 1
    /\ LastSummary.failed = 1 /\ LastSummary.matched = 1

\* the run in progress has passed step 1, step 2
PastStep1 == pc \in {"step2", "step3", "step4", "step5"}
PastStep2 == pc \in {"step3", "step4", "step5"}

\* C16: whatever requests fail, every slot of the range is requested, every call of an
\* answered request is in the origin list, is upserted unless its statement throws, and
\* the matcher accounts for the whole list.
C16_FailedRequestSkipped ==
    /\ PastStep1 =>
        /\ \A a \in DOMAIN ringbaApi :
                \E k \in IssuedInRun :
                    opLog[k].op = "getCallsByTargetId" /\ opLog[k].arg = a
        /\ \A a \in DOMAIN ringbaApi :
                ringbaApi[a].ok =>
                    \A c \in Range(ringbaApi[a].calls) :
                        \E o \in Range(ringbaCalls) : Some(o.inboundCallId) = c.inboundCallId
    /\ PastStep2 =>
        \A i \in (1..Len(ringbaCalls)) \ faults.saveThrows :
            \E r \in Range(ringba_original_sync) : r.ringba_id = ringbaCalls[i].inboundCallId
    /\ (pc = "step5" /\ Len(elocalCalls) > 0 /\ Len(ringbaCalls) > 0) =>
        Len(Updates) + prepared[1].unmatched = Len(ringbaCalls)

\* C16 witness: the first request of a two-day range failed, later requests were answered
\* with different calls, which were upserted, and one of them was assigned.
C16_Witness ==
    /\ pc = "step5"
    /\ syncArgs.range.endDay > syncArgs.range.startDay
    /\ ~ringbaApi[<<syncArgs.range.startDay, TARGET_IDS[1].id>>].ok
    /\ ringbaApi[<<syncArgs.range.endDay, TARGET_IDS[1].id>>].calls # <<>>
    /\ Len(Updates) >= 1
    /\ Len(ringba_original_sync) >= 2

\* C17: with the account id, the API token or the connection string missing, a run issues
\* no request and no statement and ends aborted.
C17_ConfigurationFatalBeforeFetch ==
    (faults.accountIdMissing \/ faults.apiTokenMissing \/ faults.databaseUrlMissing) =>
        /\ pc \in {"idle", "aborted"}
        /\ opLog = <<>>
        /\ ringba_original_sync = <<>>

\* C17 witness: a run was started without the connection string and has aborted.
C17_Witness ==
    /\ pc = "aborted"
    /\ faults.databaseUrlMissing
    /\ \E a \in DOMAIN ringbaApi : ringbaApi[a].calls # <<>>

\* an origin record without normalized phone
NoPhone(o) == o.callerIdE164 = NULL /\ toE164(o.callerId) = NULL

\* C18 (as claimed): in every finished run, each origin record without normalized phone
\* is counted in the unmatched count of the summary and has its row in the mirror table.
C18_NoPhoneUnmatchedButStored ==
    RunFinished =>
        /\ LastSummary.unmatched >=
                Cardinality({i \in 1..Len(ringbaCalls) : NoPhone(ringbaCalls[i])})
        /\ \A o \in Range(ringbaCalls) :
                NoPhone(o) => \E r \in Range(ringba_original_sync) : r = MirrorRow(o)

\* C19: at most one service is executing at any moment, across all schedules.
C19_OneServiceAtATime ==
    Cardinality(executingServices) <= 1

\* the offset hours getEasternDatePart has used for the instant, if that was its argument
OffsetUsedFor(instant, hours) ==
    (pc = "returned" /\ fnArg = Some(instant)) => fnResult[1].offsetHours = hours

\* C20 (as claimed): 2026-03-08T06:30:00Z resolves to offset -4h and 2026-03-01T06:30:00Z
\* to offset -5h.
C20_OffsetsAsClaimed ==
    /\ OffsetUsedFor(At(March8, 6, 30, 0), EdtOffsetHours)
    /\ OffsetUsedFor(At(March1, 6, 30, 0), EstOffsetHours)

\* C20 (amended): 2026-03-08T06:30:00Z and 2026-03-01T06:30:00Z resolve to offset -5h,
\* 2026-03-08T07:00:00Z to offset -4h; in March the offset is -4h from 07:00:00Z of the
\* second Sunday on and -5h before.
C20_OffsetSwitchesAtSevenUtc ==
    /\ OffsetUsedFor(At(March8, 6, 30, 0), EstOffsetHours)
    /\ OffsetUsedFor(At(March8, 7, 0, 0), EdtOffsetHours)
    /\ OffsetUsedFor(At(March1, 6, 30, 0), EstOffsetHours)
    /\ (pc = "returned" /\ fnArg[1] < At(Nov1 - 1, 0, 0, 0)) =>
            /\ fnResult[1].offsetHours =
                    IF fnArg[1] >= At(March8, 7, 0, 0) THEN EdtOffsetHours ELSE EstOffsetHours
            /\ fnResult[1].datePart =
                    (fnArg[1] - fnResult[1].offsetHours * SecondsPerHour) \div SecondsPerDay

\* C20 witness: the function was applied to 2026-03-08T06:30:00Z and used five hours,
\* which puts the instant at 01:30 of March 8.
C20_Witness ==
    /\ pc = "returned"
    /\ fnArg = Some(At(March8, 6, 30, 0))
    /\ fnResult = Some([offsetHours |-> EstOffsetHours, datePart |-> March8])

\* the canonical value of a written form: '+1' and its last ten digits
Canonical(raw) ==
    LET digits == StripNonDigits(raw) IN
    <<"+", "1">> \o SubSeq(digits, Len(digits) - NationalLen + 1, Len(digits))

\* C21: every written form of a North-American number (10 digits, or 11 with leading 1,
\* with or without '+', spaces and punctuation) normalizes to '+1' followed by its ten
\* digits, in both copies of toE164.
C21_OneCanonicalValue ==
    (pc = "returned" /\ fnArg[1].raw \in WrittenForms(PhoneA) \cup WrittenForms(PhoneB)) =>
        fnResult[1] = Canonical(fnArg[1].raw)

\* the four forms named by the claim do normalize to one value in both copies
C21_NamedFormsAgree ==
    (pc = "returned"
        /\ fnArg[1].raw \in {PhoneA, <<"1">> \o PhoneA, <<"+", "1">> \o PhoneA,
                             <<"(">> \o SubSeq(PhoneA, 1, 3) \o <<")", " ">>
                                \o SubSeq(PhoneA, 4, 6) \o <<"-">> \o SubSeq(PhoneA, 7, 10)})
        => fnResult[1] = <<"+", "1">> \o PhoneA

\* the origin records whose target id is unknown or missing
UnknownOrigins == {o \in Range(ringbaCalls) : o.targetId \notin {TargetStatic, TargetApi}}

\* the feed calls of the batch that carry no category
UncategorizedCalls == {c \in Range(fnArg[1]) : c.category = ""}

\* the stored rows of a feed call: same timestamp (the batch has one caller)
RowsOfCall(c) == {e \in Range(elocalCalls) : e.call_timestamp = c.dateOfCall}

\* C22: a record of unknown or missing category is put in the API category on both
\* sides: an origin record of unknown or missing target id has category API and is
\* assigned to API rows only, and the row of a feed call without category is an API row.
C22_UnknownIsSecondaryOnBothSides ==
    /\ \A o \in UnknownOrigins : getCategoryFromTargetId(o.targetId) = "API"
    /\ pc = "matched" =>
        /\ \A o \in UnknownOrigins, e \in Range(elocalCalls) :
                Assigned(o, e) => e.category = "API"
        /\ \A c \in UncategorizedCalls : \E e \in RowsOfCall(c) : e.category = "API"

\* the number of requests a feed of n records needs at page size p
PagesNeeded(n, p) == IF n % p = 0 /\ n > 0 THEN n \div p ELSE n \div p + 1

\* what holds of the requests issued so far and of the result
PagesInOrder ==
    LET p == effectivePageSize(fnArg[1].pageSize)
        n == Len(fnArg[1].records)
    IN  /\ \A k \in 1..Len(opLog) :
                opLog[k].arg = [offset |-> (k - 1) * p, size |-> p]
        /\ Len(opLog) <= PagesNeeded(n, p)
        /\ fnResult # NULL =>
                fnResult[1].calls = callsOfPage(SubSeq(fnArg[1].records, 1,
                                                       Len(fnResult[1].calls)))
        /\ (pc = "returned" /\ fnArg[1].totalField # "none") =>
                /\ Len(opLog) = PagesNeeded(n, p)
                /\ fnResult[1].calls = callsOfPage(fnArg[1].records)

\* C23: the paginated fetch issues its requests at offsets 0, P, 2P, ..., ends after
\* finitely many requests, returns no record twice, and returns all N records of a feed
\* that reports its total count.
C23_AllPagesFetchedOnce ==
    /\ []PagesInOrder
    /\ <>(pc \in {"returned", "failed"})
    /\ (fnArg[1].failAt = 0) => <>(pc = "returned")

\* C23 witness: a feed of five records was fetched in three pages of two.
C23_Witness ==
    /\ pc = "returned"
    /\ Len(fnArg[1].records) = 5
    /\ fnArg[1].pageSize = Some(2)
    /\ fnArg[1].totalField = "totalCount"
    /\ Len(opLog) = 3
    /\ opLog[3].arg.offset = 4
    /\ Len(fnResult[1].calls) = 5

\* the UTC calendar day on which a process in zone tz places a civil timestamp
UtcDayOf(ts) == (ts[1] - tz * SecondsPerMinute) \div SecondsPerDay

\* origin record o and row e pass the day window (UTC days at most one apart) and the time
\* window (120 minutes on one UTC day, 24 hours on adjacent days)
PassesWindows(o, e) ==
    /\ o.callDt # NULL /\ e.call_timestamp # NULL
    /\ Abs(UtcDayOf(o.callDt) - UtcDayOf(e.call_timestamp)) <= 1
    /\ CivilMinutesApart(o.callDt, e.call_timestamp) <=
            IF UtcDayOf(o.callDt) = UtcDayOf(e.call_timestamp)
            THEN WindowMinutes ELSE AdjacentDayWindowMinutes

\* the i-th origin record produced an assignment
AssignedAt(i) == \E u \in Range(Updates) : OriginIndex(u) = i

\* the unconsumed rows of the bucket of the i-th origin record that pass both windows
InWindowCandidates(i) ==
    {k \in 1..Len(elocalCalls) :
        /\ SameBucket(ringbaCalls[i], elocalCalls[k])
        /\ elocalCalls[k].id \notin ConsumedBefore(i)
        /\ PassesWindows(ringbaCalls[i], elocalCalls[k])}

\* C24: an origin record with a phone and a timestamp produces an assignment exactly when
\* its bucket holds an unconsumed row that passes the day and time windows; the unmatched
\* count is the number of origin records without assignment.
C24_UnmatchedOnlyWithoutCandidate ==
    pc = "matched" =>
        /\ \A i \in 1..Len(ringbaCalls) :
                (ringbaCalls[i].callerIdE164 # NULL /\ ringbaCalls[i].callDt # NULL) =>
                    (AssignedAt(i) <=> InWindowCandidates(i) # {})
        /\ prepared[1].unmatched =
                Cardinality({i \in 1..Len(ringbaCalls) : ~AssignedAt(i)})

\* C24 witness: the first origin record took the only row in its window; the second, of
\* the same bucket, found that row consumed and the other row out of window,
\* and was counted unmatched.
C24_Witness ==
    /\ pc = "matched"
    /\ Len(ringbaCalls) = 2 /\ Len(elocalCalls) = 2
    /\ AssignedAt(1) /\ ~AssignedAt(2)
    /\ prepared[1].unmatched = 1
    /\ \E k, m \in 1..2 :
        /\ k # m
        /\ elocalCalls[k].id \in ConsumedBefore(2)
        /\ PassesWindows(ringbaCalls[2], elocalCalls[k])
        /\ ~PassesWindows(ringbaCalls[2], elocalCalls[m])

\* C25: a payout mismatch never rejects a candidate: an origin record whose bucket holds
\* exactly one unconsumed row passing the windows is assigned to that row, whatever the
\* two payouts are.
C25_PayoutNeverRejects ==
    pc = "matched" =>
        \A i \in 1..Len(ringbaCalls) :
            Cardinality(InWindowCandidates(i)) = 1 =>
                \A k \in InWindowCandidates(i) : Assigned(ringbaCalls[i], elocalCalls[k])

\* C25 witness: two origin records with payout 12.00 and no payout were assigned to their
\* only candidates, rows with payout 15.00 and 12.00.
C25_Witness ==
    /\ pc = "matched"
    /\ Len(ringbaCalls) = 2
    /\ Cardinality(InWindowCandidates(1)) = 1 /\ Cardinality(InWindowCandidates(2)) = 1
    /\ \E k, m \in 1..Len(elocalCalls) :
        /\ Assigned(ringbaCalls[1], elocalCalls[k])
        /\ ringbaCalls[1].payout = 1200 /\ elocalCalls[k].elocal_payout = 1500
        /\ Assigned(ringbaCalls[2], elocalCalls[m])
        /\ ringbaCalls[2].payout = 0 /\ elocalCalls[m].elocal_payout = 1200

\* C26: every assignment pairs an origin record and a target row of the same category and
\* the same normalized phone number.
C26_AssignedWithinBucket ==
    pc = "matched" =>
        \A o \in Range(ringbaCalls), e \in Range(elocalCalls) :
            Assigned(o, e) =>
                /\ getCategoryFromTargetId(o.targetId) = e.category
                /\ toE164(o.callerId) # NULL
                /\ toE164(o.callerId) = toE164(e.caller_id)

\* C26 witness: two origin records of different category were assigned, each to the row
\* of its own category, while a row of the other category, of the other phone or of both
\* was there to take.
C26_Witness ==
    /\ pc = "matched"
    /\ Len(Updates) = 2
    /\ ringbaCalls[1].targetId # ringbaCalls[2].targetId
    /\ ringbaCalls[1].callerId # ringbaCalls[2].callerId
    /\ ringbaCalls[1].callDt = ringbaCalls[2].callDt
    /\ elocalCalls[1].call_timestamp = elocalCalls[2].call_timestamp

\* C27: in every run summary the emitted assignments and the unmatched count add up to
\* the number of origin records fetched, also when the target dataset is empty.
C27_OriginRecordsPartitioned ==
    \A k \in 1..Len(summaries) :
        Len(snapshots[k].updates) + summaries[k].unmatched = summaries[k].ringbaCalls

\* payout, revenue and link id of a row
EnrichmentOf(row) == <<row.ringba_original_payout, row.ringba_original_revenue, row.ringba_id>>

\* C28: after an enrichment merge the payout, revenue and link id of the row stem from one
\* record: they are the three values of the merged update, or the three values the row
\* held before.
C28_EnrichmentFromOneRecord ==
    (opLog # <<>> /\ LastOp.op = "updateOriginalPayout" /\ LastOp.done) =>
        \A i \in 1..Len(LastOp.before) :
            LastOp.before[i].id = LastOp.arg.callId =>
                LET u == LastOp.arg.u IN
                \/ EnrichmentOf(elocal_call_data[i]) =
                        <<Some(u.originalPayout), Some(u.originalRevenue),
                          Some(u.ringbaInboundCallId)>>
                \/ /\ EnrichmentOf(elocal_call_data[i]) = EnrichmentOf(LastOp.before[i])
                   /\ \A j \in 1..3 : EnrichmentOf(LastOp.before[i])[j] # NULL

\* the reads of the target rows the run in progress has issued
ReadsInRun == {k \in IssuedInRun : opLog[k].op = "getCallsForDateRange"}

\* the rows of the table of the given civil dates, of the requested category if any
RowsDated(table, dates, category) ==
    {row \in Range(table) :
        /\ row.call_timestamp # NULL
        /\ CivilDate(row.call_timestamp) \in dates
        /\ (category # NULL => row.category = category[1])}

\* C29: the target rows are read once per run, and the rows read are those dated from
\* one civil day before the first day of the range to one civil day after its last day.
C29_ReadsOneDayEachSide ==
    pc \in {"step4", "step5"} =>
        /\ Cardinality(ReadsInRun) = 1
        /\ Range(elocalCalls) =
                RowsDated(elocal_call_data,
                          (syncArgs.range.startDay - 1) .. (syncArgs.range.endDay + 1),
                          syncArgs.category)

\* C29 witness: the store holds a row dated one day after the range and a row dated two
\* days after it; the run has read the first and not the second.
C29_Witness ==
    /\ pc = "step4"
    /\ Len(elocal_call_data) = 2 /\ Len(elocalCalls) = 1
    /\ CivilDate(elocalCalls[1].call_timestamp) = syncArgs.range.endDay + 1
    /\ \E row \in Range(elocal_call_data) :
            CivilDate(row.call_timestamp) = syncArgs.range.endDay + 2

\* US Eastern daylight time in 2026: from 02:00 Eastern standard time of the second Sunday
\* of March (07:00Z) to 02:00 Eastern daylight time of the first Sunday of November (06:00Z)
UsDaylightTime(instant) ==
    /\ instant >= At(March8, 2 + EstOffsetHours, 0, 0)
    /\ instant < At(Nov1, 2 + EdtOffsetHours, 0, 0)

\* C30: the Eastern offset used for an instant is -4h exactly when the instant lies in US
\* Eastern daylight time, and -5h otherwise; both transitions are at the correct hour.
C30_OffsetFollowsUsRule ==
    pc = "converted" =>
        fnArg[1] - fnResult[1][1] =
            (IF UsDaylightTime(fnArg[1]) THEN EdtOffsetHours ELSE EstOffsetHours)
                * SecondsPerHour

\* the position in the configuration of schedule k of the service of that name
PositionOf(k, name) ==
    CHOOSE j \in 1..Len(scheduler.config[k].services) :
        scheduler.config[k].services[j].name = name

\* the names of the services that schedule k lists before position p and has enabled
EnabledNamesBefore(k, p) ==
    LET before == SelectSeq(SubSeq(scheduler.config[k].services, 1, p - 1),
                            LAMBDA s : s.enabled)
    IN  [n \in 1..Len(before) |-> before[n].name]

\* the names of the services an execution has got a result of, in the order of the results
CompletedNames(x) == [n \in 1..Len(x.serviceResults) |-> x.serviceResults[n].serviceName]

\* C31: within one execution the enabled services are started in configuration order,
\* each only after the previous one has completed, and a disabled service is never
\* started: the service being executed is enabled, and the completed services are the
\* enabled services listed before it, in that order.
C31_EnabledServicesInOrder ==
    \A n \in 1..Len(scheduler.executions) :
        LET x == scheduler.executions[n] IN
        /\ x.phase \in {"service", "delay"} =>
              /\ x.service[1].enabled
              /\ LET p == PositionOf(x.schedule, x.service[1].name)
                 IN  CompletedNames(x) =
                        EnabledNamesBefore(x.schedule,
                                           IF x.phase = "service" THEN p ELSE p + 1)
        /\ x.phase = "done" =>
              CompletedNames(x) =
                  EnabledNamesBefore(x.schedule,
                                     Len(scheduler.config[x.schedule].services) + 1)

\* C31 witness: an execution is at the third service of a schedule whose second service is
\* disabled, after the first service has failed.
C31_Witness ==
    \E n \in 1..Len(scheduler.executions) :
        LET x == scheduler.executions[n]
            services == scheduler.config[x.schedule].services
        IN  /\ x.phase = "service"
            /\ Len(services) = 3
            /\ ~services[2].enabled
            /\ x.service[1] = services[3]
            /\ Len(x.serviceResults) = 1
            /\ ~x.serviceResults[1].success

\* how many services schedule k has enabled
EnabledCount(k) ==
    Cardinality({j \in 1..Len(scheduler.config[k].services) :
                    scheduler.config[k].services[j].enabled})

\* how many of the service results are failures
FailedResults(results) == Cardinality({n \in 1..Len(results) : ~results[n].success})

\* C32: a service that throws does not end the execution: the result of every finished
\* execution has one service result per enabled service, successCount + failureCount =
\* number of enabled services, failureCount = number of failed services, and success =
\* (failureCount = 0).
C32_FailureDoesNotStopSchedule ==
    \A n \in 1..Len(scheduler.executions) :
        LET x == scheduler.executions[n] IN
        x.phase = "done" =>
            LET result == x.result[1] IN
            /\ Len(result.serviceResults) = EnabledCount(x.schedule)
            /\ result.successCount + result.failureCount = EnabledCount(x.schedule)
            /\ result.failureCount = FailedResults(result.serviceResults)
            /\ result.success = (result.failureCount = 0)

\* C32 witness: an execution has finished whose first service failed and whose later
\* services were executed, one of them successfully.
C32_Witness ==
    \E n \in 1..Len(scheduler.executions) :
        LET x == scheduler.executions[n] IN
        /\ x.phase = "done"
        /\ Len(x.result[1].serviceResults) >= 2
        /\ ~x.result[1].serviceResults[1].success
        /\ x.result[1].successCount >= 1
        /\ ~x.result[1].success

\* C33: after any sequence of start() and stop() calls, also a start() called while an
\* earlier start() has not completed, every enabled schedule has at most one active cron
\* task.
C33_OneActiveTaskPerSchedule ==
    \A k \in enabledSchedules : Cardinality(activeTasks(k)) <= 1

\* C34 as claimed: a service that fails during a schedule execution is retried: in a
\* finished execution every failed result is followed by a later result of that service.
C34_FailedServiceRetried ==
    \A n \in 1..Len(scheduler.executions) :
        LET x == scheduler.executions[n] IN
        x.phase = "done" =>
            \A f \in 1..Len(x.serviceResults) :
                ~x.serviceResults[f].success =>
                    \E later \in (f + 1)..Len(x.serviceResults) :
                        x.serviceResults[later].serviceName = x.serviceResults[f].serviceName

\* C34: a service that fails during a schedule execution is not executed again in that
\* execution: no service has two results, and the service being executed has none.
C34_NoServiceExecutedTwice ==
    \A n \in 1..Len(scheduler.executions) :
        LET x == scheduler.executions[n] IN
        /\ \A a, b \in 1..Len(x.serviceResults) :
              x.serviceResults[a].serviceName = x.serviceResults[b].serviceName => a = b
        /\ x.phase = "service" =>
              \A a \in 1..Len(x.serviceResults) :
                  x.serviceResults[a].serviceName # x.service[1].name

\* C34 witness: the first service of an execution has failed and the execution is at its
\* second service.
C34_Witness ==
    \E n \in 1..Len(scheduler.executions) :
        LET x == scheduler.executions[n] IN
        /\ x.phase = "service"
        /\ x.i = 2
        /\ Len(x.serviceResults) = 1
        /\ ~x.serviceResults[1].success
        /\ x.failureCount = 1

\* the executions of schedule k that have not returned
InProgress(k) ==
    {n \in 1..Len(scheduler.executions) :
        scheduler.executions[n].schedule = k /\ scheduler.executions[n].phase # "done"}

\* C35: for every schedule, the statistics getStats returns satisfy totalRuns =
\* successfulRuns + failedRuns + the number of executions of the schedule in progress.
C35_RunsAddUp ==
    \A k \in DOMAIN scheduler.jobStats :
        scheduler.jobStats[k].totalRuns =
            scheduler.jobStats[k].successfulRuns + scheduler.jobStats[k].failedRuns
                + Cardinality(InProgress(k))

\* the origin records the feed returns during a run
FetchedRecords ==
    UNION {Range(ringbaApi[slot].calls) : slot \in {q \in DOMAIN ringbaApi : ringbaApi[q].ok}}

\* the fetched records that have no row in the mirror table
FetchedNotStored ==
    {c \in FetchedRecords :
        \A r \in Range(ringba_original_sync) : r.ringba_id # OrElse(c.inboundCallId, "")}

\* C36: every origin record the feed returns during a run is written to the mirror table
\* or accounted for in a count of the summary: the fetched records without a mirror row
\* are as many as the summary counts as skipped.
C36_FetchedStoredOrCounted ==
    RunFinished => Cardinality(FetchedNotStored) = LastSummary.skipped

\* the (callerId, normalized timestamp, category) key of an input call with a valid
\* timestamp
InputKey(call) ==
    <<call.callerId, normalizeDateTime(call.dateOfCall)[1], CategoryOrStatic(call.category)>>

\* the input calls with a valid timestamp whose key no other input call has
GenuineCalls(rawCalls) ==
    {i \in 1..Len(rawCalls) :
        /\ normalizeDateTime(rawCalls[i].dateOfCall) # NULL
        /\ \A j \in 1..Len(rawCalls) :
             (j # i /\ normalizeDateTime(rawCalls[j].dateOfCall) # NULL)
                 => InputKey(rawCalls[j]) # InputKey(rawCalls[i])}

\* C37: processCampaignCalls drops no input call with a valid timestamp whose key differs
\* from the key of every other input call: the call is in the result, with its own
\* normalized timestamp and its own amounts.
C37_GenuineCallsKept ==
    pc = "processed" =>
        \A i \in GenuineCalls(fnArg[1]) :
            \E p \in Range(fnResult[1]) :
                p = processedCall(fnArg[1][i], normalizeDateTime(fnArg[1][i].dateOfCall)[1])

====
